---- MODULE Spec2Model ----
(***************************************************************************)
(* Verification model of the video-analysis repository:                    *)
(*   - the transcript acquisition engine (palantir_analyzer.get_transcript *)
(*     and its four strategies),                                           *)
(*   - the persistence layer (save_transcript, _generate_transcript_index),*)
(*   - the report job state machine (api.generate_report,                  *)
(*     api._do_generate_report, api._update_report).                       *)
(* Each subsystem has its own specification over the shared variables; a   *)
(* subsystem's specification leaves the other subsystems' variables alone. *)
(***************************************************************************)
EXTENDS Integers, Sequences, FiniteSets, TLC

(***************************************************************************)
(* Bounds of the model.                                                    *)
(***************************************************************************)
\* number of get_transcript calls explored (the stats counters grow with it)
MaxCalls == 2

(***************************************************************************)
(* Values.                                                                 *)
(***************************************************************************)
\* Python's None where a str is expected (Optional[str])
None == "<None>"
\* transcript texts: the empty string, an ordinary text, and a text that
\* itself contains the words NO TRANSCRIPT AVAILABLE
EmptyText == ""
MarkerText == "t-NO TRANSCRIPT AVAILABLE"
Texts == {EmptyText, "t1", MarkerText}
\* the keys of TranscriptExtractionStats.stats
Sources == {"bibigpt_api", "youtube_api", "yt_dlp", "whisper_api", "whisper_local"}
\* Optional[TranscriptResult]: no result, or a result (success defaults to True)
NoResult == [some |-> FALSE]
TranscriptResult(text, source) ==
    [some |-> TRUE, text |-> text, source |-> source, success |-> TRUE]

VARIABLES
    \* ---- acquisition engine ----
    canAccessCache,  \* PalantirVideoAnalyzer._can_access_youtube_cache: "unset" | "yes" | "no"
    env,             \* process environment: [bibigpt: BOOLEAN, openai: BOOLEAN] (tokens present)
    stats,           \* extraction_stats.stats: source -> [success, failure]
    gt,              \* the get_transcript call in progress (pc, strategies invoked, result)
    calls,           \* number of get_transcript calls started
    \* ---- persistence layer ----
    files,           \* transcripts_dir: file name -> content of the .txt file, or NoFile
    tindex,          \* transcript_index.json: video id -> file name, or NoName
    master,          \* master_index.csv: the sequence of rows (no file: no rows)
    op,              \* the last persistence operation (which handler, for which video)
    runs,            \* concurrent --convert-urls processes: run -> pc and arguments
    written,         \* the transcript files in the order of their last write (st_mtime)
    \* ---- report jobs ----
    reports,         \* reports dir: report id -> content of {id}.json, or NoReport
    jobs,            \* background tasks: report id -> state of _do_generate_report
    nextId,          \* the next fresh report id (uuid4)
    resp,            \* the last answer of generate_report, with the request served
    storeFaults,     \* whether reads and writes of a report file may raise
    \* ---- quota gate ----
    usage,           \* _guest_usage: key -> [count, minutes] (a dict: keys appear on charge)
    today,           \* the calendar day datetime.now() falls in
    conv,            \* the convert_temp_videos request being served (position, caller, N)
    tasks,           \* background acquisition tasks started by requests
    qfn,             \* an application of _check_quota_limit to given counters
    \* ---- metadata block ----
    hdr,             \* a save_transcript call, and what _generate_master_index_csv reads back
    \* ---- the final update of a report ----
    fin,             \* a selection, the materials put in the prompt and the completed update
    \* ---- extraction_stats.record called directly ----
    rcall,           \* the last direct call of record(): how many so far, its arguments
    \* ---- _batch_summarize_transcripts ----
    bat,             \* a batch, the model's answer and the summaries parsed from it
    \* ---- natural-language selection ----
    nlsel,           \* a ranked corpus, the model's answer and the videos selected from it
    \* ---- convert_temp_videos in worker threads ----
    inflight,        \* the request each worker thread is serving, and how far it got
    \* ---- batch runs and status.json ----
    status,          \* data_dir/status.json: current, total, status, phase
    loop             \* the batch run under way: which loop, its length, the item it is at

acqVars == <<canAccessCache, env, stats, gt, calls>>
storeVars == <<files, tindex, master, op, runs, written>>
reportVars == <<reports, jobs, nextId, resp, storeFaults>>
quotaVars == <<usage, today, conv, tasks, qfn>>
vars == <<acqVars, storeVars, reportVars, quotaVars, hdr, fin, rcall, bat, nlsel, inflight, status, loop>>
\* what each subsystem leaves alone
acqOthers == <<storeVars, reportVars, quotaVars, hdr, fin, rcall, bat, nlsel, inflight, status, loop>>
storeOthers == <<acqVars, reportVars, quotaVars, hdr, fin, rcall, bat, nlsel, inflight, status, loop>>
reportOthers == <<acqVars, files, op, runs, written, quotaVars, hdr, fin, rcall, bat, nlsel, inflight, status, loop>>
quotaOthers == <<acqVars, storeVars, reportVars, hdr, fin, rcall, bat, nlsel, inflight, status, loop>>
headerOthers == <<acqVars, storeVars, reportVars, quotaVars, fin, rcall, bat, nlsel, inflight, status, loop>>
finOthers == <<acqVars, storeVars, reportVars, quotaVars, hdr, rcall, bat, nlsel, inflight, status, loop>>
recOthers == <<storeVars, reportVars, quotaVars, hdr, fin, bat, nlsel, inflight, status, loop>>

(***************************************************************************)
(* TranscriptExtractionStats                                               *)
(***************************************************************************)
StatsInit == [s \in Sources |-> [success |-> 0, failure |-> 0]]

\* record() that files a name it does not know under whisper_local
RecordAnyName(st, source, success) ==
    LET name == IF source \in DOMAIN st THEN source ELSE "whisper_local" IN
    IF success
    THEN [st EXCEPT ![name].success = @ + 1]
    ELSE [st EXCEPT ![name].failure = @ + 1]

RecordSwapped(st, source, success) ==
    IF source \in DOMAIN st
    THEN IF success
         THEN [st EXCEPT ![source].failure = @ + 1]
         ELSE [st EXCEPT ![source].success = @ + 1]
    ELSE st

\* TranscriptExtractionStats.record
Record(st, source, success) ==
    IF source \in DOMAIN st
    THEN IF success
         THEN [st EXCEPT ![source].success = @ + 1]
         ELSE [st EXCEPT ![source].failure = @ + 1]
    ELSE st

(***************************************************************************)
(* Extraction strategies.  Each takes what the environment does to it      *)
(* (outcome o, text t) and the stats, and yields                           *)
(*   [ret: Optional[TranscriptResult], stats: the stats after, raised,      *)
(*    called: whether the strategy went out to its external service].      *)
(***************************************************************************)
Returned(r, st) == [ret |-> r, stats |-> st, raised |-> FALSE, called |-> TRUE]
Raised(st) == [ret |-> NoResult, stats |-> st, raised |-> TRUE, called |-> TRUE]
\* the strategy returned None before its first request (lines 405-407)
Skipped(st) == [ret |-> NoResult, stats |-> st, raised |-> FALSE, called |-> FALSE]

\* _try_youtube_transcript_api: every statement is inside the outer try.
\*   "found"     a transcript was fetched; _format_transcript may give ""
\*   "timeout"   SIGALRM fired               -> failure recorded, None
\*   "disabled"  TranscriptsDisabled         -> failure recorded, None
\*   "error"     any other Exception         -> failure recorded, None
\*   "no_tracks" both loops end without a return: None, nothing recorded
YoutubeOutcomes == {"found", "timeout", "disabled", "error", "no_tracks"}
TryYoutubeTranscriptApi(o, t, st) ==
    CASE o = "found" -> Returned(TranscriptResult(t, "youtube_api"), st)
      [] o \in {"timeout", "disabled", "error"} ->
            Returned(NoResult, Record(st, "youtube_api", FALSE))
      [] OTHER -> Returned(NoResult, st)

\* _try_yt_dlp_subtitles: temp_dir.mkdir() runs before the try.
\*   "setup_raise" mkdir raises: the exception leaves the function
\*   "timeout"     subprocess.TimeoutExpired -> failure recorded, None
\*   "found"       a .vtt parsed to a non-empty text (if text:)
\*   "nofile"      no sidecar file, or only empty ones -> failure recorded, None
\*   "error"       any Exception inside the try       -> failure recorded, None
YtDlpOutcomes == {"setup_raise", "timeout", "found", "nofile", "error"}
TryYtDlpSubtitles(o, t, st) ==
    CASE o = "setup_raise" -> Raised(st)
      [] o = "found" /\ t # EmptyText -> Returned(TranscriptResult(t, "yt_dlp"), st)
      [] OTHER -> Returned(NoResult, Record(st, "yt_dlp", FALSE))

\* _try_bibigpt_api: skipped (None, nothing recorded) without a token.
\*   "found"   a 200 response with a subtitlesArray whose text is longer than 10
\*   "nothing" every language timed out, failed or had no usable structure
\*   "error"   an Exception in the outer try
BibigptOutcomes == {"found", "nothing", "error"}
TryBibigptApiNoTokenTest(o, t, st, token) ==
    CASE o = "found" /\ t # EmptyText -> Returned(TranscriptResult(t, "bibigpt_api"), st)
      [] OTHER -> Returned(NoResult, Record(st, "bibigpt_api", FALSE))

TryBibigptApi(o, t, st, token) ==
    CASE ~token -> Skipped(st)
      [] o = "found" /\ t # EmptyText -> Returned(TranscriptResult(t, "bibigpt_api"), st)
      [] OTHER -> Returned(NoResult, Record(st, "bibigpt_api", FALSE))

\* _transcribe_with_whisper -> _transcribe_whisper_api | _transcribe_whisper_local:
\* both create temp_audio_dir before their try.
\*   "setup_raise" mkdir raises: the exception leaves the function
\*   "text"        a non-empty transcription (text if text else None)
\*   "none"        no audio, empty text, ImportError, or an Exception in the try
WhisperOutcomes == {"setup_raise", "text", "none"}
TranscribeWithWhisper(o, t) ==
    CASE o = "setup_raise" -> [raised |-> TRUE, text |-> None]
      [] o = "text" /\ t # EmptyText -> [raised |-> FALSE, text |-> t]
      [] OTHER -> [raised |-> FALSE, text |-> None]

\* _try_whisper_transcription: the source is whisper_api when OPENAI_API_KEY is
\* set, else whisper_local; a failure is always recorded under whisper_local.
TryWhisperTranscription(o, t, st, apiKey) ==
    LET tr == TranscribeWithWhisper(o, t) IN
    CASE tr.raised -> Raised(st)
      [] tr.text # None ->
            Returned(TranscriptResult(tr.text,
                        IF apiKey THEN "whisper_api" ELSE "whisper_local"), st)
      [] OTHER -> Returned(NoResult, Record(st, "whisper_local", FALSE))

(***************************************************************************)
(* Reachability probe: _can_access_youtube, memoized in a class attribute. *)
(*   "http_ok"     urlopen answered 200                    -> True         *)
(*   "socket_ok"   urlopen failed, connect_ex returned 0   -> True         *)
(*   "socket_fail" urlopen failed, connect_ex returned # 0 -> False        *)
(*   "error"       an Exception in the outer try           -> False        *)
(***************************************************************************)
ProbeOutcomes == {"http_ok", "socket_ok", "socket_fail", "error"}
\* the mutant: the class attribute is not consulted
CanAccessYoutubeNoCache(cache, o) ==
    IF o \in {"http_ok", "socket_ok"} THEN "yes" ELSE "no"

CanAccessYoutube(cache, o) ==
    IF cache # "unset" THEN cache
    ELSE IF o \in {"http_ok", "socket_ok"} THEN "yes" ELSE "no"

(***************************************************************************)
(* get_transcript, one action per strategy invocation.                     *)
(* gt.pc is the line the call is at; gt.invoked and gt.results list the    *)
(* strategies invoked so far and what each returned.                       *)
(***************************************************************************)
GtIdle == [pc |-> "idle", reach |-> "unset", probed |-> FALSE, net |-> "-",
           invoked |-> <<>>, results |-> <<>>, called |-> <<>>,
           ret |-> None, winner |-> "none", stats0 |-> StatsInit]

\* Python's `result and result.success`
Succeeded(r) == r.some /\ r.success

\* the tail of every strategy block: on success record the stat and return the
\* text, else go on to the line nextPc; an exception leaves get_transcript
AfterStrategy(name, r, nextPc) ==
    IF r.raised
    THEN /\ gt' = [gt EXCEPT !.pc = "raised", !.invoked = Append(@, name),
                             !.results = Append(@, NoResult),
                             !.called = Append(@, r.called)]
         /\ stats' = r.stats
    ELSE IF Succeeded(r.ret)
    THEN /\ gt' = [gt EXCEPT !.pc = "returned", !.invoked = Append(@, name),
                             !.results = Append(@, r.ret),
                             !.called = Append(@, r.called),
                             !.ret = r.ret.text, !.winner = r.ret.source]
         /\ stats' = Record(r.stats, r.ret.source, TRUE)
    ELSE /\ gt' = [gt EXCEPT !.pc = nextPc, !.invoked = Append(@, name),
                             !.results = Append(@, r.ret),
                             !.called = Append(@, r.called)]
         /\ stats' = r.stats

\* get_transcript is entered (line 339); one call at a time per process
GtStart ==
    /\ gt.pc \in {"idle", "returned", "raised"}
    /\ calls < MaxCalls
    /\ calls' = calls + 1
    /\ gt' = [GtIdle EXCEPT !.pc = "probe", !.stats0 = stats]
    /\ UNCHANGED <<canAccessCache, env, stats>>
    /\ UNCHANGED acqOthers

\* line 343-345, 371: the probe picks the branch.  o is what the network would
\* answer now; urlopen and connect_ex run only while the cache is None (lines
\* 756-757), gt.probed tells whether they ran in this call
GtProbe ==
    /\ gt.pc = "probe"
    /\ \E o \in ProbeOutcomes :
          LET c == CanAccessYoutube(canAccessCache, o) IN
          /\ canAccessCache' = c
          /\ gt' = [gt EXCEPT !.reach = c, !.probed = (canAccessCache = "unset"),
                              !.net = IF o \in {"http_ok", "socket_ok"} THEN "yes" ELSE "no",
                              !.pc = IF c = "yes" THEN "youtube_api" ELSE "bibigpt_api"]
    /\ UNCHANGED <<env, stats, calls>>
    /\ UNCHANGED acqOthers

\* lines 349-354
GtYoutubeApi ==
    /\ gt.pc = "youtube_api"
    /\ \E o \in YoutubeOutcomes, t \in Texts :
          AfterStrategy("youtube_api", TryYoutubeTranscriptApi(o, t, stats), "yt_dlp")
    /\ UNCHANGED <<canAccessCache, env, calls>>
    /\ UNCHANGED acqOthers

\* lines 356-361
GtYtDlp ==
    /\ gt.pc = "yt_dlp"
    /\ \E o \in YtDlpOutcomes, t \in Texts :
          AfterStrategy("yt_dlp", TryYtDlpSubtitles(o, t, stats), "whisper_3")
    /\ UNCHANGED <<canAccessCache, env, calls>>
    /\ UNCHANGED acqOthers

\* lines 363-369: "method 3", inside the reachable branch
GtWhisperMethod3 ==
    /\ gt.pc = "whisper_3"
    /\ \E o \in WhisperOutcomes, t \in Texts :
          AfterStrategy("whisper", TryWhisperTranscription(o, t, stats, env.openai),
                        "whisper_last")
    /\ UNCHANGED <<canAccessCache, env, calls>>
    /\ UNCHANGED acqOthers

\* lines 375-381
GtBibigpt ==
    /\ gt.pc = "bibigpt_api"
    /\ \E o \in BibigptOutcomes, t \in Texts :
          AfterStrategy("bibigpt_api", TryBibigptApi(o, t, stats, env.bibigpt),
                        "whisper_last")
    /\ UNCHANGED <<canAccessCache, env, calls>>
    /\ UNCHANGED acqOthers

\* lines 383-395: the last resort after either branch, then the final failure
\* stat and `return None`
GtWhisperLast ==
    /\ gt.pc = "whisper_last"
    /\ \E o \in WhisperOutcomes, t \in Texts :
          LET r == TryWhisperTranscription(o, t, stats, env.openai) IN
          IF r.raised \/ Succeeded(r.ret)
          THEN AfterStrategy("whisper", r, "returned")
          ELSE /\ gt' = [gt EXCEPT !.pc = "returned", !.invoked = Append(@, "whisper"),
                                   !.results = Append(@, r.ret),
                                   !.called = Append(@, r.called), !.ret = None]
               /\ stats' = Record(r.stats, "whisper_local", FALSE)
    /\ UNCHANGED <<canAccessCache, env, calls>>
    /\ UNCHANGED acqOthers

\* _try_whisper_transcription takes no timeout and sets none: ydl.download,
\* the loading of the model and model.transcribe (or the upload to the OpenAI
\* API) run with no bound of their own, and get_transcript waits for the call
\* to return.  A transcription that does not come back leaves the call inside
\* the strategy.
GtWhisperHangs ==
    /\ gt.pc \in {"whisper_3", "whisper_last"}
    /\ gt' = [gt EXCEPT !.pc = "in_whisper", !.invoked = Append(@, "whisper")]
    /\ UNCHANGED <<canAccessCache, env, stats, calls>>
    /\ UNCHANGED acqOthers

AcqInit ==
    /\ canAccessCache = "unset"
    /\ env \in [bibigpt : BOOLEAN, openai : BOOLEAN]
    /\ stats = StatsInit
    /\ gt = GtIdle
    /\ calls = 0

NextAcq ==
    \/ GtStart
    \/ GtProbe
    \/ GtYoutubeApi
    \/ GtYtDlp
    \/ GtWhisperMethod3
    \/ GtBibigpt
    \/ GtWhisperLast
    \/ GtWhisperHangs

(***************************************************************************)
(* extraction_stats is a module global and record() a public method: a     *)
(* caller outside get_transcript applies it to the process's counters,     *)
(* with one of the five names or with any other string.                    *)
(***************************************************************************)
MaxRecordCalls == 1
UnknownSource == "whisper"
\* the names direct calls are made with: a known one and an unknown one
RecordNames == {"youtube_api", UnknownSource}
NoRecord == [n |-> 0, source |-> "-", success |-> FALSE]

RecordCall ==
    /\ gt.pc \in {"idle", "returned", "raised"}
    /\ rcall.n < MaxRecordCalls
    /\ \E source \in RecordNames, success \in BOOLEAN :
          /\ stats' = Record(stats, source, success)
          /\ rcall' = [n |-> rcall.n + 1, source |-> source, success |-> success]
    /\ UNCHANGED <<canAccessCache, env, gt, calls>>
    /\ UNCHANGED recOthers

RecInit == rcall = NoRecord

\* get_transcript calls and direct calls of record()
NextStats == NextAcq \/ RecordCall

(***************************************************************************)
(* Persistence layer: save_transcript and the transcript index.            *)
(***************************************************************************)
Vids == {"v1", "v2"}
\* titles after sanitize_filename (with the date); the videos modelled share
\* one, so their files collide whenever their ranks agree
Titles == {"ta"}
\* RankAssigner.get_rank gives S, A or B; two ranks are modelled
Ranks == {"A", "B"}
\* filename = f"[{rank}]_{formatted_date}_{title}.txt"
FileName(rank, title) == <<rank, title>>
\* sorted(self.transcripts_dir.glob("*.txt"))
SortedNames == << <<"A", "ta">>, <<"B", "ta">> >>
NoName == <<>>
NoFile == [exists |-> FALSE]
\* the fixed body written when there is no transcript text
Placeholder == "NO TRANSCRIPT AVAILABLE"

\* the category values the handlers pass to save_transcript: "other" is the
\* CSV value U+5176 U+4ED6 that --convert-urls passes, "" the default
CategoryOther == "other"
NoCategory == ""

\* the text save_transcript writes: the header's URL (the video id),
\* `Transcript: Available | NOT AVAILABLE` and `Category:`, then the transcript
\* if it is truthy, else the placeholder block
FileText(vid, transcript, has_transcript, category) ==
    [exists |-> TRUE, vid |-> vid, avail |-> has_transcript, category |-> category,
     body |-> IF transcript \notin {None, EmptyText} THEN transcript ELSE Placeholder]

\* 'NO TRANSCRIPT AVAILABLE' in raw
HasMarker(c) == c.body \in {Placeholder, MarkerText}

\* save_transcript lines 949-957: the write is skipped when the new commit has
\* no transcript and the existing file reads back without the marker; a failed
\* read (except Exception: pass) falls through to the write
KeepExisting(fs, fn, has_transcript, readOk) ==
    /\ ~has_transcript
    /\ fs[fn].exists
    /\ readOk
    /\ ~HasMarker(fs[fn])

\* save_transcript
SaveTranscript(fs, vid, title, transcript, rank, has_transcript, category, readOk) ==
    LET fn == FileName(rank, title) IN
    IF KeepExisting(fs, fn, has_transcript, readOk)
    THEN fs
    ELSE [fs EXCEPT ![fn] = FileText(vid, transcript, has_transcript, category)]

\* what a save_transcript call gives back to its caller: the bare `return` of
\* line 955 when the write is skipped, the end of the function body (line 995)
\* when the file was written; the function has no other return statement and
\* raises nothing in either case
SaveTranscriptReturns(fs, title, rank, has_transcript, readOk) ==
    IF KeepExisting(fs, FileName(rank, title), has_transcript, readOk)
    THEN None
    ELSE None

\* the order of last writes after open(filepath, "w") on fn: fn is the newest
Touch(w, fn) ==
    LET IsOther(x) == x # fn IN SelectSeq(w, IsOther) \o <<fn>>

\* save_transcript, its effect on the order of last writes: none when the
\* write is skipped
TouchOnSave(w, fs, title, rank, has_transcript, readOk) ==
    IF KeepExisting(fs, FileName(rank, title), has_transcript, readOk)
    THEN w
    ELSE Touch(w, FileName(rank, title))

\* _generate_transcript_index / regen_transcript_index: one pass over the sorted
\* files; a video's entry is its first file, replaced by the first later file
\* that has content when the entry has none
RECURSIVE IndexFrom(_, _, _)
IndexFrom(fs, i, idx) ==
    IF i > Len(SortedNames) THEN idx
    ELSE LET c == fs[SortedNames[i]]
             has_content == ~HasMarker(c)
         IN IF c.exists /\ (idx[c.vid].name = NoName \/ (has_content /\ ~idx[c.vid].has))
            THEN IndexFrom(fs, i + 1,
                    [idx EXCEPT ![c.vid] = [name |-> SortedNames[i], has |-> has_content]])
            ELSE IndexFrom(fs, i + 1, idx)

GenerateTranscriptIndex(fs) ==
    LET idx == IndexFrom(fs, 1, [v \in Vids |-> [name |-> NoName, has |-> FALSE]])
    IN [v \in Vids |-> idx[v].name]

\* the Transcript column of master_index.csv: "yes" is the CSV value U+6709,
\* "no" the CSV value U+65E0
TranscriptYes == "yes"
TranscriptNo == "no"
\* fetch_video_details: the view count of each video (in thousands)
ViewCount(vid) == IF vid = "v1" THEN 50 ELSE 5

\* _generate_master_index_csv: one row per transcript file, parsed from its
\* header; the Source line is the default "youtube" in every file the modelled
\* handlers write
RECURSIVE MasterRowsFrom(_, _)
MasterRowsFrom(fs, i) ==
    IF i > Len(SortedNames) THEN <<>>
    ELSE LET fn == SortedNames[i]
             c == fs[fn]
             row == [_video_id |-> c.vid, Rank |-> fn[1], Title |-> fn[2],
                     Views |-> ViewCount(c.vid),
                     Transcript |-> IF c.avail THEN TranscriptYes ELSE TranscriptNo,
                     Category |-> c.category, TranscriptSource |-> "youtube"]
         IN IF c.exists THEN <<row>> \o MasterRowsFrom(fs, i + 1)
            ELSE MasterRowsFrom(fs, i + 1)

GenerateMasterIndexCsv(fs) == MasterRowsFrom(fs, 1)

\* what a handler passes on: has_transcript = (transcript is not None)
IsNotNone(transcript) == transcript # None

\* main(), --convert-urls (lines 1925-1936): get_transcript, save_transcript,
\* then _generate_master_index_csv and _generate_transcript_index
ConvertUrls ==
    /\ \E v \in Vids, title \in Titles, rank \in Ranks,
          tr \in Texts \cup {None}, readOk \in BOOLEAN :
          /\ files' = SaveTranscript(files, v, title, tr, rank, IsNotNone(tr),
                                     CategoryOther, readOk)
          /\ written' = TouchOnSave(written, files, title, rank, IsNotNone(tr), readOk)
          /\ master' = GenerateMasterIndexCsv(files')
          /\ tindex' = GenerateTranscriptIndex(files')
          /\ op' = [kind |-> "convert", vid |-> v, has |-> IsNotNone(tr), readOk |-> readOk]
    /\ UNCHANGED runs
    /\ UNCHANGED storeOthers

\* retry_failed (lines 1680-1699): save_transcript; only master_index.csv is
\* regenerated, transcript_index.json is not
RetryFailed ==
    /\ \E v \in Vids, title \in Titles, rank \in Ranks,
          tr \in Texts \cup {None}, readOk \in BOOLEAN :
          /\ files' = SaveTranscript(files, v, title, tr, rank, IsNotNone(tr),
                                     NoCategory, readOk)
          /\ written' = TouchOnSave(written, files, title, rank, IsNotNone(tr), readOk)
          /\ master' = GenerateMasterIndexCsv(files')
          /\ op' = [kind |-> "retry", vid |-> v, has |-> IsNotNone(tr), readOk |-> readOk]
    /\ UNCHANGED <<tindex, runs>>
    /\ UNCHANGED storeOthers

\* process_filtered_candidates over one candidate (lines 1156-1186): the
\* candidate's get_transcript has returned a text or None, save_transcript
\* commits it, then _write_frontend_output regenerates both indexes
ProcessFilteredCandidates ==
    /\ \E v \in Vids, title \in Titles, rank \in Ranks,
          tr \in Texts \cup {None}, readOk \in BOOLEAN :
          /\ files' = SaveTranscript(files, v, title, tr, rank, IsNotNone(tr),
                                     NoCategory, readOk)
          /\ written' = TouchOnSave(written, files, title, rank, IsNotNone(tr), readOk)
          /\ master' = GenerateMasterIndexCsv(files')
          /\ tindex' = GenerateTranscriptIndex(files')
          /\ op' = [kind |-> "process", vid |-> v, has |-> IsNotNone(tr), readOk |-> readOk,
                    kept |-> KeepExisting(files, FileName(rank, title), IsNotNone(tr),
                                          readOk),
                    ret |-> SaveTranscriptReturns(files, title, rank, IsNotNone(tr),
                                                  readOk)]
    /\ UNCHANGED runs
    /\ UNCHANGED storeOthers

\* _transcribe_with_whisper returns `text if text else None`
WhisperTexts == (Texts \ {EmptyText}) \cup {None}

\* main(), --whisper-one on the dashboards temp and slim (lines 1866-1873): the
\* first transcript file, in glob order, whose text contains the video id is
\* unlinked before the transcription starts
UnlinkOld(fs, d) == [fs EXCEPT ![d] = NoFile]

\* main(), --whisper-one on temp and slim (lines 1864-1897): unlink, fetch the
\* details, transcribe, save_transcript, then both indexes are regenerated
WhisperOneTemp ==
    /\ \E v \in Vids, title \in Titles, rank \in Ranks,
          tr \in WhisperTexts, readOk \in BOOLEAN :
          LET old == {fn \in DOMAIN files : files[fn].exists /\ files[fn].vid = v} IN
          \E d \in (IF old = {} THEN {NoName} ELSE old) :
             LET fs == IF d = NoName THEN files ELSE UnlinkOld(files, d)
                 w == IF d = NoName THEN written
                      ELSE LET IsOther(x) == x # d IN SelectSeq(written, IsOther)
             IN /\ files' = SaveTranscript(fs, v, title, tr, rank, IsNotNone(tr),
                                           CategoryOther, readOk)
                /\ written' = TouchOnSave(w, fs, title, rank, IsNotNone(tr), readOk)
                /\ master' = GenerateMasterIndexCsv(files')
                /\ tindex' = GenerateTranscriptIndex(files')
                /\ op' = [kind |-> "whisper_one_temp", vid |-> v, has |-> IsNotNone(tr),
                          readOk |-> readOk]
    /\ UNCHANGED runs
    /\ UNCHANGED storeOthers

\* main(), --whisper-one on the other dashboards (lines 1898-1914): the
\* candidate's details, transcribe, save_transcript, then
\* _sync_transcripts_to_data_dir regenerates both indexes (lines 1411-1412)
WhisperOne ==
    /\ \E v \in Vids, title \in Titles, rank \in Ranks,
          tr \in WhisperTexts, readOk \in BOOLEAN :
          /\ files' = SaveTranscript(files, v, title, tr, rank, IsNotNone(tr),
                                     NoCategory, readOk)
          /\ written' = TouchOnSave(written, files, title, rank, IsNotNone(tr), readOk)
          /\ master' = GenerateMasterIndexCsv(files')
          /\ tindex' = GenerateTranscriptIndex(files')
          /\ op' = [kind |-> "whisper_one", vid |-> v, has |-> IsNotNone(tr),
                    readOk |-> readOk]
    /\ UNCHANGED runs
    /\ UNCHANGED storeOthers

\* api_regen_transcript_index -> regen_transcript_index
RegenTranscriptIndex ==
    /\ tindex' = GenerateTranscriptIndex(files)
    /\ op' = [kind |-> "regen", vid |-> "-", has |-> FALSE, readOk |-> TRUE]
    /\ UNCHANGED <<files, master, runs, written>>
    /\ UNCHANGED storeOthers

(***************************************************************************)
(* Concurrent acquisition runs: convert_temp_videos starts one subprocess  *)
(* per request with no lock, so two --convert-urls processes may run       *)
(* save_transcript at once.  Its read of the existing file (lines 950-957) *)
(* and its write (lines 982-992) are separate steps.                       *)
(***************************************************************************)
Runs == {"r1", "r2"}
RunIdle == [pc |-> "idle", vid |-> "v1", title |-> "ta", rank |-> "A", tr |-> None,
            readOk |-> TRUE]

\* the process has fetched the details and get_transcript has returned
RunAcquire(r) ==
    /\ runs[r].pc = "idle"
    /\ \E v \in Vids, title \in Titles, rank \in Ranks, tr \in Texts \cup {None} :
          runs' = [runs EXCEPT ![r] =
                      [pc |-> "acquired", vid |-> v, title |-> title, rank |-> rank,
                       tr |-> tr, readOk |-> TRUE]]
    /\ UNCHANGED <<files, tindex, master, op, written>>
    /\ UNCHANGED storeOthers

\* save_transcript lines 949-957: return, or go on to the write
RunCheck(r) ==
    /\ runs[r].pc = "acquired"
    /\ \E readOk \in BOOLEAN :
          runs' = [runs EXCEPT ![r].readOk = readOk, ![r].pc =
                      IF KeepExisting(files, FileName(runs[r].rank, runs[r].title),
                                      IsNotNone(runs[r].tr), readOk)
                      THEN "saved" ELSE "checked"]
    /\ UNCHANGED <<files, tindex, master, op, written>>
    /\ UNCHANGED storeOthers

\* save_transcript lines 959-995: the file is rewritten
RunWrite(r) ==
    /\ runs[r].pc = "checked"
    /\ files' = [files EXCEPT ![FileName(runs[r].rank, runs[r].title)] =
                    FileText(runs[r].vid, runs[r].tr, IsNotNone(runs[r].tr), CategoryOther)]
    /\ written' = Touch(written, FileName(runs[r].rank, runs[r].title))
    /\ runs' = [runs EXCEPT ![r].pc = "saved"]
    /\ UNCHANGED <<tindex, master, op>>
    /\ UNCHANGED storeOthers

\* lines 1934-1936: both indexes are regenerated and the process ends
RunIndex(r) ==
    /\ runs[r].pc = "saved"
    /\ master' = GenerateMasterIndexCsv(files)
    /\ tindex' = GenerateTranscriptIndex(files)
    /\ runs' = [runs EXCEPT ![r].pc = "done"]
    /\ UNCHANGED <<files, op, written>>
    /\ UNCHANGED storeOthers

StoreInit ==
    /\ files = [fn \in Ranks \X Titles |-> NoFile]
    /\ tindex = [v \in Vids |-> NoName]
    /\ master = <<>>
    /\ op = [kind |-> "none", vid |-> "-", has |-> FALSE, readOk |-> TRUE]
    /\ runs = [r \in Runs |-> RunIdle]
    /\ written = <<>>

NextStore ==
    \/ ConvertUrls
    \/ RetryFailed
    \/ RegenTranscriptIndex

\* the handlers that acquire one item and commit it
NextItems ==
    \/ ProcessFilteredCandidates
    \/ WhisperOneTemp
    \/ WhisperOne

NextRace ==
    \/ \E r \in Runs : RunAcquire(r)
    \/ \E r \in Runs : RunCheck(r)
    \/ \E r \in Runs : RunWrite(r)
    \/ \E r \in Runs : RunIndex(r)

(***************************************************************************)
(* Report store (src/api.py): one JSON file per report.                    *)
(***************************************************************************)
MaxJobs == 1
ReportIds == 1..MaxJobs
NoReport == [exists |-> FALSE]
\* a file that is there but is not valid JSON (a write that failed half way)
Corrupt == [exists |-> TRUE]
Valid(rec) == rec.exists /\ "status" \in DOMAIN rec

\* an error text and its length in characters
Msg(text, len) == [text |-> text, len |-> len]
\* the fixed error texts of _do_generate_report (lines 1391, 1400, 1424, 1432)
ErrNoData == Msg("no video data", 5)
ErrNoQuery == Msg("enter a natural-language request", 9)
ErrNoMatchNl == Msg("no video matches the request", 11)
ErrNoMatchFilter == Msg("no video matches after filtering", 8)
ErrNoTranscripts == Msg("none of the selected videos has a transcript", 8)
\* the details of generate_report's rejections (lines 1486, 1491, 1495, 1499)
DetailNoData == "no video data"
DetailNoQuery == "enter a natural-language request"
DetailNoMatch == "no video matches after filtering, relax the filters"
DetailNoTranscripts == "none of the selected videos has a transcript, no report"

\* str(e)[:200]
ErrCap == 200
ExcLens == {0, ErrCap + 1}
StrTruncated(n) == IF n > ErrCap THEN ErrCap ELSE n
ExcMsg(n) == Msg("exception", StrTruncated(n))

\* _save_report: id added, status defaulted (created_at is not modelled)
SaveReport(id, payload) ==
    [exists |-> TRUE, id |-> id]
        @@ (IF "status" \in DOMAIN payload THEN payload
            ELSE payload @@ [status |-> "completed"])

\* data.update(updates)
DictUpdate(data, updates) ==
    [k \in (DOMAIN data) \cup (DOMAIN updates) |->
        IF k \in DOMAIN updates THEN updates[k] ELSE data[k]]

(***************************************************************************)
(* Selection: _apply_filters and the natural-language selection.           *)
(***************************************************************************)
\* the substrings of a lower-cased title (str.find(q) >= 0)
SubstringsOf(title) == IF title = "ta" THEN {"t", "a", "ta"} ELSE {title}
\* PRODUCT_KEYWORDS, lower-cased (two of them)
ProductKeywords == {"aip", "demo"}
\* _is_product: no video_meta.json, so _text(v) is the title
IsProduct(v) == \E kw \in ProductKeywords : kw \in SubstringsOf(v.Title)

\* filters with every key falsy
NoFilters ==
    [search |-> "", rankFilter |-> "", rankFilterMulti |-> "", transcriptFilter |-> "",
     categoryFilter |-> "", viewsMin |-> 0, viewsMax |-> 0]

\* the ranks rankFilterMulti keeps
MultiRanks(rfm) ==
    IF rfm = "S+" THEN {"S"}
    ELSE IF rfm = "A+" THEN {"S", "A"}
    ELSE IF rfm = "B+" THEN {"S", "A", "B"}
    ELSE {"S", "A", "B", "Unknown"}

\* transcriptFilter: "yes", "no", "whisper", "youtube"; any other value keeps all
TranscriptKeeps(tf, v) ==
    IF tf = TranscriptYes THEN v.Transcript = TranscriptYes
    ELSE IF tf = TranscriptNo THEN v.Transcript = TranscriptNo
    ELSE IF tf = "whisper"
         THEN v.Transcript = TranscriptYes /\ v.TranscriptSource = "whisper"
    ELSE IF tf = "youtube"
         THEN v.Transcript = TranscriptYes /\ v.TranscriptSource # "whisper"
    ELSE TRUE

\* categoryFilter: "product", "other", "non_product", or a category name
CategoryKeeps(cf, v) ==
    IF cf = "product" THEN IsProduct(v)
    ELSE IF cf = CategoryOther THEN v.Category = CategoryOther
    ELSE IF cf = "non_product" THEN ~IsProduct(v) /\ v.Category # CategoryOther
    ELSE v.Category = cf

\* one row against every key of the filters that is truthy
FilterKeeps(f, v) ==
    /\ f.search # "" => f.search \in SubstringsOf(v.Title)
    /\ f.rankFilter # "" => v.Rank = f.rankFilter
    /\ f.rankFilterMulti # "" => v.Rank \in MultiRanks(f.rankFilterMulti)
    /\ f.transcriptFilter # "" => TranscriptKeeps(f.transcriptFilter, v)
    /\ f.categoryFilter # "" => CategoryKeeps(f.categoryFilter, v)
    /\ f.viewsMin > 0 => v.Views >= f.viewsMin
    /\ f.viewsMax > 0 => v.Views <= f.viewsMax

\* _apply_filters (the date keys are not modelled: the rows carry no date)
ApplyFilters(m, f) ==
    LET Keep(v) == FilterKeeps(f, v) IN SelectSeq(m, Keep)

\* the 11-character matches re.findall finds in the selection response: a
\* response is a sequence of tokens separated by other characters; "w" is a
\* short word, every other token is 11 characters of [a-zA-Z0-9_-]
FindAllIds(response) ==
    LET IsId(t) == t # "w" IN SelectSeq(response, IsId)

\* master_by_id[vid]: the last row of that id
RowById(m, vid) ==
    m[CHOOSE i \in 1..Len(m) :
        /\ m[i]._video_id = vid
        /\ \A j \in (i + 1)..Len(m) : m[j]._video_id # vid]

\* [master_by_id[vid] for vid in selected_ids if vid in master_by_id]
RECURSIVE RowsOfIds(_, _)
RowsOfIds(m, ids) ==
    IF ids = <<>> THEN <<>>
    ELSE LET vid == Head(ids)
             known == \E i \in 1..Len(m) : m[i]._video_id = vid
         IN (IF known THEN <<RowById(m, vid)>> ELSE <<>>) \o RowsOfIds(m, Tail(ids))

SelectFromResponseAll(m, response) ==
    IF FindAllIds(response) = <<>> THEN m ELSE RowsOfIds(m, FindAllIds(response))

SelectFromResponse(m, response) == RowsOfIds(m, FindAllIds(response))

\* read_transcript_content lines 346-351: raw.split("TRANSCRIPT") cuts the file
\* at every occurrence of the word; the transcript returned is parts[1] after
\* the rule line, stripped: the body up to its own first "TRANSCRIPT".  The
\* placeholder block "NO TRANSCRIPT AVAILABLE ..." comes back as "NO".
CutAtTranscript(body) ==
    IF body = Placeholder THEN "NO"
    ELSE IF body = MarkerText THEN "t-NO"
    ELSE body

\* read_transcript_content: the transcript part of the file, "" without a file
ReadTranscriptContent(fs, fn) ==
    IF fs[fn].exists THEN CutAtTranscript(fs[fn].body) ELSE EmptyText

\* "NO TRANSCRIPT" in text[:200]
ContainsNoTranscript(text) == text \in {Placeholder, MarkerText}

\* _load_transcripts_for_videos: the ids whose indexed file reads back a text
\* that is not empty and has no "NO TRANSCRIPT" in its first 200 characters
LoadTranscriptsForVideos(video_ids, idx, fs) ==
    {vid \in video_ids :
        /\ idx[vid] # NoName
        /\ ReadTranscriptContent(fs, idx[vid]) # EmptyText
        /\ ~ContainsNoTranscript(ReadTranscriptContent(fs, idx[vid]))}

\* [v for v in selected if v["_video_id"] in transcripts]
WithTranscript(selected, transcripts) ==
    LET Has(v) == v._video_id \in transcripts IN SelectSeq(selected, Has)

IdsOf(rows) == {rows[i]._video_id : i \in 1..Len(rows)}

(***************************************************************************)
(* generate_report: the submission.                                        *)
(***************************************************************************)
\* the filters a caller sends
FilterChoices ==
    {NoFilters,
     [NoFilters EXCEPT !.rankFilter = "A", !.categoryFilter = CategoryOther, !.viewsMin = 10],
     [NoFilters EXCEPT !.rankFilter = "S"],
     [NoFilters EXCEPT !.rankFilterMulti = "B+", !.transcriptFilter = TranscriptNo]}
\* nl_query: absent, empty, blank, or a request
NlQueries == {None, EmptyText, " ", "q"}
\* ReportGenerateRequest: mode is any string
Requests ==
    {[mode |-> "filter", filters |-> f, nl_query |-> None] : f \in FilterChoices}
    \cup {[mode |-> "nl", filters |-> NoFilters, nl_query |-> q] : q \in NlQueries}
    \cup {[mode |-> "other", filters |-> NoFilters, nl_query |-> None]}

\* (nl_query or "").strip()
Strip(q) == IF q \in {None, " "} THEN EmptyText ELSE q

\* title = nl_query.strip()[:80] in nl mode, else the fixed title; "" gives the
\* default title (the queries modelled are shorter than 80)
ReportTitle(req) ==
    LET title == IF req.mode = "nl" THEN Strip(req.nl_query) ELSE "filter report"
    IN IF title = EmptyText THEN "smart report" ELSE title

Accept == [code |-> 200, detail |-> ""]
Reject(code, detail) == [code |-> code, detail |-> detail]

QuickValidateNlOnly(req, m, idx, fs) ==
    IF m = <<>> THEN Reject(400, DetailNoData)
    ELSE IF req.mode = "nl" /\ req.nl_query = None THEN Reject(500, "AttributeError")
    ELSE IF req.mode = "nl" /\ req.nl_query = EmptyText THEN Reject(400, DetailNoQuery)
    ELSE Accept

\* generate_report lines 1484-1499: the checks before the record is created.
\* In nl mode `not (nl_query or nl_query.strip())` raises AttributeError on
\* None (a 500 answer) and lets a blank query through.
QuickValidate(req, m, idx, fs) ==
    IF m = <<>> THEN Reject(400, DetailNoData)
    ELSE IF req.mode = "nl"
    THEN IF req.nl_query = None THEN Reject(500, "AttributeError")
         ELSE IF req.nl_query = EmptyText THEN Reject(400, DetailNoQuery)
         ELSE Accept
    ELSE IF req.mode = "filter"
    THEN LET selected == ApplyFilters(m, req.filters) IN
         IF selected = <<>> THEN Reject(400, DetailNoMatch)
         ELSE IF WithTranscript(selected,
                     LoadTranscriptsForVideos(IdsOf(selected), idx, fs)) = <<>>
         THEN Reject(400, DetailNoTranscripts)
         ELSE Accept
    ELSE Accept

\* generate_report that leaves the status out of the payload it saves
PendingPayloadNoStatus(req) ==
    [title |-> ReportTitle(req), mode |-> req.mode,
     dashboard_id |-> "temp", selected_count |-> 0]

\* the payload generate_report saves
PendingPayload(req) ==
    [status |-> "pending", title |-> ReportTitle(req), mode |-> req.mode,
     dashboard_id |-> "temp", selected_count |-> 0]

NoJob == [pc |-> "none"]
\* no selection call has answered
NoResponse == <<None>>
NoUpdates == [status |-> "none"]
\* the background task as add_task leaves it; master0 records the corpus the
\* submission was validated against
ScheduledJob(req, m0) ==
    [pc |-> "scheduled", req |-> req, inTry |-> TRUE, master |-> <<>>, selected |-> <<>>,
     transcripts |-> {}, response |-> NoResponse, upd |-> NoUpdates, data |-> NoReport,
     next |-> "none", master0 |-> m0]

NoRequest == [mode |-> "none", filters |-> NoFilters, nl_query |-> None]

GenerateReport ==
    /\ nextId <= MaxJobs
    /\ \E req \in Requests :
          LET v == QuickValidate(req, master, tindex, files) IN
          IF v.code # 200
          THEN /\ resp' = [req |-> req, code |-> v.code, detail |-> v.detail, id |-> 0]
               /\ UNCHANGED <<reports, jobs>>
          ELSE \/ /\ reports' = [reports EXCEPT ![nextId] =
                                    SaveReport(nextId, PendingPayload(req))]
                  /\ jobs' = [jobs EXCEPT ![nextId] = ScheduledJob(req, master)]
                  /\ resp' = [req |-> req, code |-> 200, detail |-> "pending",
                              id |-> nextId]
               \* _save_report's write raises (line 54): the call ends with a
               \* server error before add_task, the file is left truncated
               \/ /\ storeFaults
                  /\ reports' = [reports EXCEPT ![nextId] = Corrupt]
                  /\ resp' = [req |-> req, code |-> 500, detail |-> "error", id |-> 0]
                  /\ UNCHANGED jobs
    /\ nextId' = nextId + 1
    /\ UNCHANGED <<master, tindex, storeFaults>>
    /\ UNCHANGED reportOthers

(***************************************************************************)
(* _do_generate_report: the background task, one action per step that      *)
(* reads or writes shared files or waits for a generative call.            *)
(***************************************************************************)
\* a call of _update_report(report_id, dashboard_id, updates) starts; the task
\* goes on at `next` when it returns
BeginUpdate(j, updates, next) ==
    [j EXCEPT !.pc = "update_check", !.upd = updates, !.next = next]

\* an exception of message length n is raised (the locals of the try block are
\* dead): inside the try block the handler (line 1477) starts its own
\* _update_report; raised by the handler's own call it leaves
\* _do_generate_report
Raise(j, n) ==
    IF j.inTry
    THEN [BeginUpdate(j, [status |-> "failed", error |-> ExcMsg(n)], "done")
            EXCEPT !.inTry = FALSE, !.master = <<>>, !.selected = <<>>,
                   !.transcripts = {}, !.response = NoResponse, !.data = NoReport]
    ELSE [j EXCEPT !.pc = "escaped", !.upd = NoUpdates, !.data = NoReport]

\* _update_report returns: the task goes on, the call's locals are gone
EndUpdate(j) == [j EXCEPT !.pc = j.next, !.upd = NoUpdates, !.data = NoReport]

\* a step that changes this background job only
JobStep(id, j) ==
    /\ jobs' = [jobs EXCEPT ![id] = j]
    /\ UNCHANGED <<reports, nextId, resp, storeFaults, master, tindex>>
    /\ UNCHANGED reportOthers

\* line 1388
JobBegin(id) ==
    /\ jobs[id].pc = "scheduled"
    /\ JobStep(id, BeginUpdate(jobs[id], [status |-> "processing"], "load"))

\* _update_report line 61-62: `if not path.exists(): return`
UpdateCheck(id) ==
    /\ jobs[id].pc = "update_check"
    /\ JobStep(id, IF reports[id].exists THEN [jobs[id] EXCEPT !.pc = "update_read"]
                    ELSE EndUpdate(jobs[id]))

\* _update_report lines 63-64: open and json.load; a file deleted since the
\* check, or one that is not valid JSON, raises
UpdateRead(id) ==
    /\ jobs[id].pc = "update_read"
    /\ \/ /\ Valid(reports[id])
          /\ JobStep(id, [jobs[id] EXCEPT !.pc = "update_write", !.data = reports[id]])
       \/ /\ ~Valid(reports[id]) \/ storeFaults
          /\ \E n \in ExcLens : JobStep(id, Raise(jobs[id], n))

\* _update_report lines 65-67: data.update(updates), then open(path, "w") and
\* json.dump; a write that fails leaves a truncated file
UpdateWrite(id) ==
    /\ jobs[id].pc = "update_write"
    /\ \/ /\ reports' = [reports EXCEPT ![id] = DictUpdate(jobs[id].data, jobs[id].upd)]
          /\ jobs' = [jobs EXCEPT ![id] = EndUpdate(jobs[id])]
       \/ /\ storeFaults
          /\ reports' = [reports EXCEPT ![id] = Corrupt]
          /\ \E n \in ExcLens : jobs' = [jobs EXCEPT ![id] = Raise(jobs[id], n)]
    /\ UNCHANGED <<nextId, resp, storeFaults, master, tindex>>
    /\ UNCHANGED reportOthers

FailedNoReturn(j, err) == BeginUpdate(j, [status |-> "failed", error |-> err], "synthesize")

\* a failure update followed by `return`
Failed(j, err) == BeginUpdate(j, [status |-> "failed", error |-> err], "done")

\* lines 1389-1392: load_master_index
JobLoadMaster(id) ==
    /\ jobs[id].pc = "load"
    /\ \/ LET j == [jobs[id] EXCEPT !.master = master] IN
          JobStep(id, IF master = <<>> THEN Failed(j, ErrNoData)
                      ELSE [j EXCEPT !.pc = "select"])
       \/ \E n \in ExcLens : JobStep(id, Raise(jobs[id], n))

\* the answers of the generative selection call: tokens of the text
Responses == {<<>>, <<"w", "zz">>, <<"v2", "w", "v1">>}

AfterSelectionFailing(j, mode) ==
    Failed(j, IF mode = "nl" THEN ErrNoMatchNl ELSE ErrNoMatchFilter)

\* lines 1424-1426: an empty selection fails the job
AfterSelection(j, mode) ==
    IF j.selected = <<>>
    THEN Failed(j, IF mode = "nl" THEN ErrNoMatchNl ELSE ErrNoMatchFilter)
    ELSE [j EXCEPT !.pc = "transcripts"]

\* lines 1393-1426: the selection of either mode
JobSelect(id) ==
    LET j == jobs[id]
        mode == j.req.mode
    IN
    /\ j.pc = "select"
    /\ \/ /\ mode = "filter"
          /\ JobStep(id, AfterSelection(
                 [j EXCEPT !.selected = ApplyFilters(j.master, j.req.filters)], mode))
       \/ /\ mode = "nl"
          /\ Strip(j.req.nl_query) = EmptyText
          /\ JobStep(id, Failed(j, ErrNoQuery))
       \/ /\ mode = "nl"
          /\ Strip(j.req.nl_query) # EmptyText
          /\ \E response \in Responses :
                JobStep(id, AfterSelection(
                    [j EXCEPT !.response = response,
                              !.selected = SelectFromResponse(j.master, response)], mode))
       \/ /\ mode \notin {"filter", "nl"}
          /\ JobStep(id, AfterSelection(j, mode))
       \/ \E n \in ExcLens : JobStep(id, Raise(j, n))

\* lines 1428-1433: _load_transcripts_for_videos
JobLoadTranscripts(id) ==
    LET j == jobs[id]
        transcripts == LoadTranscriptsForVideos(IdsOf(j.selected), tindex, files)
    IN
    /\ j.pc = "transcripts"
    /\ \/ JobStep(id, IF WithTranscript(j.selected, transcripts) = <<>>
                      THEN Failed(j, ErrNoTranscripts)
                      ELSE [j EXCEPT !.transcripts = transcripts, !.pc = "summarize"])
       \/ \E n \in ExcLens : JobStep(id, Raise(j, n))

\* line 1436: _batch_summarize_transcripts, one generative call
JobSummarize(id) ==
    /\ jobs[id].pc = "summarize"
    /\ \/ JobStep(id, [jobs[id] EXCEPT !.pc = "synthesize"])
       \/ \E n \in ExcLens : JobStep(id, Raise(jobs[id], n))

\* report_text.strip()
ReportTexts == {"report"}

\* videos_with_transcript[:30] (line 1438) and [:20] (line 1466)
MaterialsCap == 30
TitlesCap == 20
\* s[:n]
Take(s, n) == SubSeq(s, 1, IF Len(s) < n THEN Len(s) ELSE n)

\* lines 1438-1449: the videos whose summary and metadata go into the prompt
Materials(j) == Take(WithTranscript(j.selected, j.transcripts), MaterialsCap)

\* lines 1466-1475
CompletedUpdates(j, text) ==
    LET used == WithTranscript(j.selected, j.transcripts)
        titled == Take(used, TitlesCap)
    IN
    [status |-> "completed", report |-> text, selected_count |-> Len(j.selected),
     with_transcript_count |-> Len(used),
     video_titles |-> [i \in 1..Len(titled) |-> titled[i].Title],
     title |-> ReportTitle(j.req)]

\* selections of a large corpus: n videos selected, the first m of them with a
\* transcript; video i has the id and the title i
MaxSelected == 31
SelectedOf(n) == [i \in 1..n |-> [_video_id |-> i, Title |-> i]]
NoFinal ==
    [applied |-> FALSE, selected |-> <<>>, transcripts |-> {}, materials |-> <<>>,
     upd |-> NoUpdates]
FinalInputs ==
    {[applied |-> FALSE, selected |-> SelectedOf(n), transcripts |-> 1..m,
      materials |-> <<>>, upd |-> NoUpdates] : n \in 1..MaxSelected, m \in 1..MaxSelected}

\* _do_generate_report from line 1436 on, for a selection with a transcript:
\* the prompt is built and the completed update computed
ApplyCompleted ==
    /\ ~fin.applied
    /\ fin.transcripts # {}
    /\ \E text \in ReportTexts :
          LET j == [selected |-> fin.selected, transcripts |-> fin.transcripts,
                    req |-> [mode |-> "filter", filters |-> NoFilters, nl_query |-> None]]
          IN  fin' = [fin EXCEPT !.applied = TRUE,
                                 !.materials = Materials(j),
                                 !.upd = CompletedUpdates(j, text)]
    /\ UNCHANGED finOthers

FinInit == fin = NoFinal

\* lines 1437-1475: the synthesis call and the final update
JobSynthesize(id) ==
    /\ jobs[id].pc = "synthesize"
    /\ \/ \E text \in ReportTexts :
             JobStep(id, BeginUpdate(jobs[id], CompletedUpdates(jobs[id], text), "done"))
       \/ \E n \in ExcLens : JobStep(id, Raise(jobs[id], n))

\* delete_report -> _delete_report
DeleteReport(id) ==
    /\ reports[id].exists
    /\ reports' = [reports EXCEPT ![id] = NoReport]
    /\ UNCHANGED <<jobs, nextId, resp, storeFaults, master, tindex>>
    /\ UNCHANGED reportOthers

\* temp_delete_video: the video's rows leave master_index.csv and its entry
\* leaves transcript_index.json (no csv file: nothing is done)
TempDeleteVideo(vid) ==
    /\ master # <<>>
    /\ LET Other(row) == row._video_id # vid IN master' = SelectSeq(master, Other)
    /\ tindex' = [tindex EXCEPT ![vid] = NoName]
    /\ UNCHANGED <<reports, jobs, nextId, resp, storeFaults>>
    /\ UNCHANGED reportOthers

ReportInit ==
    /\ reports = [id \in ReportIds |-> NoReport]
    /\ jobs = [id \in ReportIds |-> NoJob]
    /\ nextId = 1
    /\ resp = [req |-> NoRequest, code |-> 0, detail |-> "", id |-> 0]
    /\ storeFaults \in BOOLEAN

NextReport ==
    \/ GenerateReport
    \/ \E id \in ReportIds : JobBegin(id)
    \/ \E id \in ReportIds : UpdateCheck(id)
    \/ \E id \in ReportIds : UpdateRead(id)
    \/ \E id \in ReportIds : UpdateWrite(id)
    \/ \E id \in ReportIds : JobLoadMaster(id)
    \/ \E id \in ReportIds : JobSelect(id)
    \/ \E id \in ReportIds : JobLoadTranscripts(id)
    \/ \E id \in ReportIds : JobSummarize(id)
    \/ \E id \in ReportIds : JobSynthesize(id)
    \/ \E id \in ReportIds : DeleteReport(id)
    \/ \E vid \in Vids : TempDeleteVideo(vid)

\* a data directory that holds a corpus: v1 converted with a transcript (rank
\* A), v2 converted without one (rank B), both indexes generated
CorpusFiles ==
    SaveTranscript(
        SaveTranscript([fn \in Ranks \X Titles |-> NoFile],
                       "v1", "ta", "t1", "A", TRUE, CategoryOther, TRUE),
        "v2", "ta", None, "B", FALSE, CategoryOther, TRUE)

(***************************************************************************)
(* Quota gate (api.py): per-key daily usage, admission and charge.         *)
(***************************************************************************)
GUEST_DAILY_LIMIT_COUNT == 5
GUEST_DAILY_LIMIT_MINUTES == 80
VIDEO_DURATION_ESTIMATE == 15
AUTH_DAILY_LIMIT_COUNT == 20
AUTH_DAILY_LIMIT_MINUTES == 300
\* convert_temp_videos keeps the first five links of a request
MaxUrls == 5

\* the calendar days datetime.now() passes through, in order
Days == <<"d1", "d2">>
\* requests: whether the token is VALID_AUTH, and the client address
Callers ==
    {[auth |-> TRUE, ip |-> "ip1"], [auth |-> FALSE, ip |-> "ip1"]}

IsAuthenticated(request) == request.auth

\* the mutant: the key carries no date
GetUserKeyNoDate(request, day) ==
    IF IsAuthenticated(request)
    THEN [key |-> <<"user", Days[1]>>, is_auth |-> TRUE]
    ELSE [key |-> <<request.ip, Days[1]>>, is_auth |-> FALSE]

\* "user:yyyy-mm-dd" for every authenticated request, "ip:yyyy-mm-dd" otherwise
GetUserKey(request, day) ==
    IF IsAuthenticated(request)
    THEN [key |-> <<"user", day>>, is_auth |-> TRUE]
    ELSE [key |-> <<request.ip, day>>, is_auth |-> FALSE]

\* _guest_usage.get(key, {"count": 0, "minutes": 0})
UsageGet(u, key) ==
    IF key \in DOMAIN u THEN u[key] ELSE [count |-> 0, minutes |-> 0]

\* the mutant: one of the two tests is enough
CheckQuotaLimitEither(u, request, day) ==
    LET k == GetUserKey(request, day)
        used == UsageGet(u, k.key)
        limit_count == IF k.is_auth THEN AUTH_DAILY_LIMIT_COUNT
                       ELSE GUEST_DAILY_LIMIT_COUNT
        limit_minutes == IF k.is_auth THEN AUTH_DAILY_LIMIT_MINUTES
                         ELSE GUEST_DAILY_LIMIT_MINUTES
    IN  [can_continue |-> used.count < limit_count \/ used.minutes < limit_minutes,
         count |-> used.count, minutes |-> used.minutes]

\* the mutant: the counters are compared with the limits for equality
CheckQuotaLimitExact(u, request, day) ==
    LET k == GetUserKey(request, day)
        used == UsageGet(u, k.key)
        limit_count == IF k.is_auth THEN AUTH_DAILY_LIMIT_COUNT
                       ELSE GUEST_DAILY_LIMIT_COUNT
        limit_minutes == IF k.is_auth THEN AUTH_DAILY_LIMIT_MINUTES
                         ELSE GUEST_DAILY_LIMIT_MINUTES
    IN  [can_continue |-> used.count # limit_count /\ used.minutes # limit_minutes,
         count |-> used.count, minutes |-> used.minutes]

CheckQuotaLimit(u, request, day) ==
    LET k == GetUserKey(request, day)
        used == UsageGet(u, k.key)
        limit_count == IF k.is_auth THEN AUTH_DAILY_LIMIT_COUNT
                       ELSE GUEST_DAILY_LIMIT_COUNT
        limit_minutes == IF k.is_auth THEN AUTH_DAILY_LIMIT_MINUTES
                         ELSE GUEST_DAILY_LIMIT_MINUTES
        count_ok == used.count < limit_count
        minutes_ok == used.minutes < limit_minutes
    IN  [can_continue |-> count_ok /\ minutes_ok,
         count |-> used.count, minutes |-> used.minutes]

\* the mutant: the charge is added under every recorded key
IncUsageEveryKey(u, request, day, count_delta, minutes_delta) ==
    LET key == GetUserKey(request, day).key
    IN  [k \in DOMAIN u \cup {key} |->
            [count |-> UsageGet(u, k).count + count_delta,
             minutes |-> UsageGet(u, k).minutes + minutes_delta]]

\* the mutant: only the count is charged, as _inc_guest_usage does
IncUsageCountOnly(u, request, day, count_delta, minutes_delta) ==
    LET key == GetUserKey(request, day).key
        old == UsageGet(u, key)
    IN  [k \in DOMAIN u \cup {key} |->
            IF k = key
            THEN [count |-> old.count + count_delta, minutes |-> old.minutes]
            ELSE u[k]]

\* the mutant: the charge is the default one (one item) whatever the deltas
IncUsageOne(u, request, day, count_delta, minutes_delta) ==
    LET key == GetUserKey(request, day).key
        old == UsageGet(u, key)
    IN  [k \in DOMAIN u \cup {key} |->
            IF k = key
            THEN [count |-> old.count + 1,
                  minutes |-> old.minutes + VIDEO_DURATION_ESTIMATE]
            ELSE u[k]]

\* _inc_usage: the record is created on the first charge of a key
IncUsage(u, request, day, count_delta, minutes_delta) ==
    LET key == GetUserKey(request, day).key
        old == UsageGet(u, key)
    IN  [k \in DOMAIN u \cup {key} |->
            IF k = key
            THEN [count |-> old.count + count_delta,
                  minutes |-> old.minutes + minutes_delta]
            ELSE u[k]]

\* the mutant: a request is never too large
WouldExceedNever(u, request, day, n) == FALSE

\* convert_temp_videos, the test of the whole request against what is left
WouldExceed(u, request, day, n) ==
    LET k == GetUserKey(request, day)
        used == UsageGet(u, k.key)
        new_count == used.count + n
        new_minutes == used.minutes + n * VIDEO_DURATION_ESTIMATE
    IN  IF k.is_auth
        THEN new_count > AUTH_DAILY_LIMIT_COUNT \/ new_minutes > AUTH_DAILY_LIMIT_MINUTES
        ELSE new_count > GUEST_DAILY_LIMIT_COUNT \/ new_minutes > GUEST_DAILY_LIMIT_MINUTES

Min(a, b) == IF a < b THEN a ELSE b
NoCaller == [auth |-> FALSE, ip |-> "-"]
ConvIdle == [pc |-> "idle", request |-> NoCaller, n |-> 0, code |-> 0]

\* convert_temp_videos up to the charge: the links are counted (at most
\* MaxUrls kept) and validated, the quota is tested, the script is looked up.
\* links: the non-blank links sent; valid: every kept link holds a video id;
\* script: palantir_analyzer.py exists
ConvCheck ==
    /\ conv.pc = "idle"
    /\ \E request \in Callers, links \in 0..(MaxUrls + 1), valid \in BOOLEAN,
          script \in BOOLEAN :
          LET n == Min(links, MaxUrls)
              code == IF n = 0 \/ ~valid THEN 400
                      ELSE IF ~CheckQuotaLimit(usage, request, today).can_continue
                      THEN 429
                      ELSE IF WouldExceed(usage, request, today, n) THEN 429
                      ELSE IF ~script THEN 500
                      ELSE 200
          IN  conv' = [pc |-> IF code = 200 THEN "admitted" ELSE "rejected",
                       request |-> request, n |-> n, code |-> code]
    /\ UNCHANGED <<usage, today, tasks, qfn>>
    /\ UNCHANGED quotaOthers

\* _inc_usage(count_delta=len(vids), minutes_delta=len(vids) * 15)
ConvCharge ==
    /\ conv.pc = "admitted"
    /\ usage' = IncUsage(usage, conv.request, today, conv.n,
                         conv.n * VIDEO_DURATION_ESTIMATE)
    /\ conv' = [conv EXCEPT !.pc = "charged"]
    /\ UNCHANGED <<today, tasks, qfn>>
    /\ UNCHANGED quotaOthers

\* background_tasks.add_task(_run) and the answer {"ok": True, ...}
ConvSchedule ==
    /\ conv.pc = "charged"
    /\ tasks' = tasks \cup {[kind |-> "convert-urls", request |-> conv.request]}
    /\ conv' = [conv EXCEPT !.pc = "scheduled"]
    /\ UNCHANGED <<usage, today, qfn>>
    /\ UNCHANGED quotaOthers

\* the request is answered (HTTPException or the ok answer); the next one is served
ConvReturn ==
    /\ conv.pc \in {"rejected", "scheduled"}
    /\ conv' = ConvIdle
    /\ UNCHANGED <<usage, today, tasks, qfn>>
    /\ UNCHANGED quotaOthers

\* convert_single_transcript: the --whisper-one process is started for a valid id
ConvertSingleTranscript ==
    /\ \E request \in Callers :
          tasks' = tasks \cup {[kind |-> "whisper-one", request |-> request]}
    /\ UNCHANGED <<usage, today, conv, qfn>>
    /\ UNCHANGED quotaOthers

\* run_analysis: the analysis process is started; AuthMiddleware lets only
\* authenticated requests reach it
RunAnalysis ==
    /\ \E request \in Callers :
          /\ IsAuthenticated(request)
          /\ tasks' = tasks \cup {[kind |-> "run-analysis", request |-> request]}
    /\ UNCHANGED <<usage, today, conv, qfn>>
    /\ UNCHANGED quotaOthers

\* midnight: datetime.now() moves to the next day; _guest_usage is left alone
NextDay ==
    /\ \E i \in 1..(Len(Days) - 1) : today = Days[i] /\ today' = Days[i + 1]
    /\ UNCHANGED <<usage, conv, tasks, qfn>>
    /\ UNCHANGED quotaOthers

\* convert_temp_videos is a plain `def` endpoint: the framework runs each
\* request in a thread of its pool, and the handler takes no lock around
\* _guest_usage.  A thread goes from the tests (lines 960-1003) to the charge
\* (line 1007), the scheduling and the answer; the other threads run between
\* any two of these steps.
Threads == {"t1", "t2"}

\* lines 960-1003 in thread t: the links are counted and validated, the
\* quota is tested against the counters as they stand, the script is looked up
ThreadCheck(t) ==
    /\ inflight[t].pc = "idle"
    /\ \E request \in Callers, links \in 0..(MaxUrls + 1), valid \in BOOLEAN,
          script \in BOOLEAN :
          LET n == Min(links, MaxUrls)
              code == IF n = 0 \/ ~valid THEN 400
                      ELSE IF ~CheckQuotaLimit(usage, request, today).can_continue
                      THEN 429
                      ELSE IF WouldExceed(usage, request, today, n) THEN 429
                      ELSE IF ~script THEN 500
                      ELSE 200
          IN  inflight' = [inflight EXCEPT ![t] =
                              [pc |-> IF code = 200 THEN "admitted" ELSE "rejected",
                               request |-> request, n |-> n, code |-> code]]
    /\ UNCHANGED <<usage, today, conv, tasks, qfn>>
    /\ UNCHANGED <<acqVars, storeVars, reportVars, hdr, fin, rcall, bat, nlsel, status, loop>>

\* line 1007 in thread t, and the scheduling and answer that follow it
ThreadCharge(t) ==
    /\ inflight[t].pc = "admitted"
    /\ usage' = IncUsage(usage, inflight[t].request, today, inflight[t].n,
                         inflight[t].n * VIDEO_DURATION_ESTIMATE)
    /\ tasks' = tasks \cup {[kind |-> "convert-urls", request |-> inflight[t].request]}
    /\ inflight' = [inflight EXCEPT ![t].pc = "scheduled"]
    /\ UNCHANGED <<today, conv, qfn>>
    /\ UNCHANGED <<acqVars, storeVars, reportVars, hdr, fin, rcall, bat, nlsel, status, loop>>

\* the thread has answered (HTTPException or the ok answer) and takes the
\* next request
ThreadReturn(t) ==
    /\ inflight[t].pc \in {"rejected", "scheduled"}
    /\ inflight' = [inflight EXCEPT ![t] = ConvIdle]
    /\ UNCHANGED <<usage, today, conv, tasks, qfn>>
    /\ UNCHANGED <<acqVars, storeVars, reportVars, hdr, fin, rcall, bat, nlsel, status, loop>>

ThreadsInit == inflight = [t \in Threads |-> ConvIdle]
NextThreads ==
    \E t \in Threads : ThreadCheck(t) \/ ThreadCharge(t) \/ ThreadReturn(t)

\* counters handed to _check_quota_limit: used count and minutes of the key,
\* and a later state of the same key, k items and m minutes further
QuotaCounts == {0, 3, 4, 5, 6, 19, 20, 21}
QuotaMinutes == {0, 60, 75, 79, 80, 81, 299, 300, 301}
QuotaMore == {0, 1, 15, 75}
NoCheck ==
    [applied |-> FALSE, request |-> NoCaller, count |-> 0, minutes |-> 0,
     k |-> 0, m |-> 0, first |-> FALSE, second |-> FALSE]
QuotaInputs ==
    {[applied |-> FALSE, request |-> r, count |-> c, minutes |-> d,
      k |-> k, m |-> m, first |-> FALSE, second |-> FALSE] :
        r \in Callers, c \in QuotaCounts, d \in QuotaMinutes,
        k \in QuotaMore, m \in QuotaMore}

\* _check_quota_limit over a dict that holds the given counters, then over
\* the dict with the counters raised
ApplyCheckQuotaLimit ==
    /\ ~qfn.applied
    /\ qfn.request \in Callers
    /\ LET key == GetUserKey(qfn.request, today).key
           u1 == [x \in {key} |-> [count |-> qfn.count, minutes |-> qfn.minutes]]
           u2 == IncUsage(u1, qfn.request, today, qfn.k, qfn.m)
       IN  qfn' = [qfn EXCEPT
                     !.applied = TRUE,
                     !.first = CheckQuotaLimit(u1, qfn.request, today).can_continue,
                     !.second = CheckQuotaLimit(u2, qfn.request, today).can_continue]
    /\ UNCHANGED <<usage, today, conv, tasks>>
    /\ UNCHANGED quotaOthers

QuotaInit ==
    /\ usage = [x \in {} |-> [count |-> 0, minutes |-> 0]]
    /\ today = Days[1]
    /\ conv = ConvIdle
    /\ tasks = {}
    /\ qfn = NoCheck

\* the convert endpoint over the days
NextQuota == ConvCheck \/ ConvCharge \/ ConvSchedule \/ ConvReturn \/ NextDay
\* every endpoint that starts acquisition work, within one day
NextGate ==
    \/ ConvCheck \/ ConvCharge \/ ConvSchedule \/ ConvReturn
    \/ ConvertSingleTranscript \/ RunAnalysis
NextQuotaFn == ApplyCheckQuotaLimit

(***************************************************************************)
(* The batch loops and status.json.  filter_channel, process_filtered_     *)
(* candidates, process_whisper_missing and process_others write the        *)
(* progress record before the loop, at each item and after the loop; what  *)
(* an item leaves in the transcripts directory is the matter of Process-   *)
(* FilteredCandidates and WhisperOne, here an item either completes, is    *)
(* skipped, or raises.                                                     *)
(***************************************************************************)
\* the longest item list of a run
MaxItems == 3
Loops == {"filter", "process", "whisper", "others"}
ItemOutcomes == {"ok", "skip", "raise"}

\* _write_status: the record replaces status.json (data_dir is set)
WriteStatus(current, total, st, phase, failed_count) ==
    [current |-> current, total |-> total, status |-> st, phase |-> phase,
     failed_count |-> failed_count]

\* the record written after the loop: lines 1119, 1186, 1775, 1816; only
\* process_filtered_candidates passes its count of failed items
CloseStatus(kind, total, failed) ==
    WriteStatus(total, total, "idle",
                IF kind \in {"filter", "whisper"} THEN kind ELSE "process",
                IF kind = "process" THEN failed ELSE 0)

NoLoop == [pc |-> "idle", kind |-> "process", total |-> 0, idx |-> 0, failed |-> 0]

\* the run starts: the item list is built and the first record written.
\* filter_channel and process_others return before any record when the list
\* is empty (lines 1022-1024, 1796-1798); process_whisper_missing writes
\* (0, 0, idle) and returns (lines 1738-1741)
LoopStart(kind) ==
    /\ loop.pc \in {"idle", "done", "raised"}
    /\ \E total \in 0..MaxItems :
          IF total = 0 /\ kind \in {"filter", "others"}
          THEN /\ loop' = [pc |-> "done", kind |-> kind, total |-> 0, idx |-> 0, failed |-> 0]
               /\ status' = status
          ELSE IF total = 0 /\ kind = "whisper"
          THEN /\ loop' = [pc |-> "done", kind |-> kind, total |-> 0, idx |-> 0, failed |-> 0]
               /\ status' = WriteStatus(0, 0, "idle", "whisper", 0)
          ELSE /\ loop' = [pc |-> "running", kind |-> kind, total |-> total, idx |-> 1,
                           failed |-> 0]
               /\ status' = WriteStatus(0, total,
                                IF kind = "filter" THEN "filtering" ELSE "processing",
                                IF kind \in {"filter", "whisper"} THEN kind ELSE "process",
                                0)
    /\ UNCHANGED <<acqVars, storeVars, reportVars, quotaVars, hdr, fin, rcall, bat, nlsel, inflight>>

\* one turn of the loop at item idx.
\* filter (1034-1040): the record, then fetch_video_details, which returns
\*   None on its own exceptions: the item is kept or skipped;
\* process (1156-1184): the record, then get_transcript and save_transcript
\*   inside try/except: a raise is listed and the loop goes on;
\* whisper (1760-1774): the record, then _transcribe_with_whisper and
\*   save_transcript with no try around them: a raise leaves the method;
\* others (1803-1814): fetch_video_details first, `continue` without a
\*   record when it is None, else the record, then get_transcript and
\*   save_transcript with no try around them
LoopItem ==
    /\ loop.pc = "running" /\ loop.idx <= loop.total
    /\ \E outcome \in ItemOutcomes :
          /\ outcome = "skip" => loop.kind \in {"filter", "others"}
          /\ outcome = "raise" => loop.kind # "filter"
          /\ status' =
                IF loop.kind = "others" /\ outcome = "skip"
                THEN status
                ELSE WriteStatus(loop.idx, loop.total,
                        IF loop.kind = "filter" THEN "filtering" ELSE "processing",
                        IF loop.kind \in {"filter", "whisper"} THEN loop.kind
                        ELSE "process",
                        loop.failed)
          /\ loop' =
                IF outcome = "raise" /\ loop.kind \in {"whisper", "others"}
                THEN [loop EXCEPT !.pc = "raised"]
                ELSE IF outcome = "raise"
                THEN [loop EXCEPT !.idx = loop.idx + 1, !.failed = loop.failed + 1]
                ELSE [loop EXCEPT !.idx = loop.idx + 1]
    /\ UNCHANGED <<acqVars, storeVars, reportVars, quotaVars, hdr, fin, rcall, bat, nlsel, inflight>>

\* the loop is over: the closing record is written
LoopEnd ==
    /\ loop.pc = "running" /\ loop.idx > loop.total
    /\ status' = CloseStatus(loop.kind, loop.total, loop.failed)
    /\ loop' = [loop EXCEPT !.pc = "done"]
    /\ UNCHANGED <<acqVars, storeVars, reportVars, quotaVars, hdr, fin, rcall, bat, nlsel, inflight>>

StatusInit == status = WriteStatus(0, 0, "idle", "process", 0)
LoopInit == loop = NoLoop
NextLoops == (\E kind \in Loops : LoopStart(kind)) \/ LoopItem \/ LoopEnd

(***************************************************************************)
(* The metadata block: save_transcript writes it, _generate_master_index_  *)
(* csv parses it back.  A string is a sequence of tokens (words, " ", ":", *)
(* ",", "/100"), fine enough for strip, startswith, split, replace and in. *)
(***************************************************************************)
\* lines = f.readlines()[:25]
HeaderWindow == 25

\* str.strip()
RECURSIVE StripTokens(_)
StripTokens(l) ==
    IF l = <<>> THEN l
    ELSE IF Head(l) = " " THEN StripTokens(Tail(l))
    ELSE IF l[Len(l)] = " " THEN StripTokens(SubSeq(l, 1, Len(l) - 1))
    ELSE l

\* line.split(":", 1)[1] when once, line.split(":")[1] otherwise
FieldAfterColon(l, once) ==
    LET colons == {i \in 1..Len(l) : l[i] = ":"}
        first == CHOOSE i \in colons : \A j \in colons : i <= j
        later == {i \in colons : i > first}
        last == IF once \/ later = {} THEN Len(l)
                ELSE (CHOOSE i \in later : \A j \in later : i <= j) - 1
    IN  SubSeq(l, first + 1, last)

\* f"{view_count:,}" of a count given by its groups of three digits
Commas(groups) ==
    IF Len(groups) = 1 THEN groups ELSE <<groups[1], ",", groups[2]>>

\* metadata_header (lines 961-979), line by line
MetadataHeader(video_data, rank, score, has_transcript, category, source) ==
    LET rule == <<"====">> IN
    << rule, <<"METADATA">>, rule,
       <<"Title", ":", " ">> \o video_data.title,
       <<"URL", ":", " ">> \o video_data.url,
       <<"Published", ":", " ">> \o video_data.date,
       <<"View", " ", "Count", ":", " ">> \o Commas(video_data.view_count),
       <<"Duration", ":", " ", "0", " ", "seconds">>,
       <<"Score", ":", " ">> \o score \o <<"/100">>,
       <<"Rank", ":", " ", rank, " ", "(", "description", ")">>,
       <<"Transcript", ":", " ">> \o
           (IF has_transcript THEN <<"Available">> ELSE <<"NOT", " ", "AVAILABLE">>),
       <<"Category", ":", " ">> \o category,
       <<"Source", ":", " ">> \o (IF source = <<>> THEN <<"youtube">> ELSE source),
       <<>>, rule, <<"TRANSCRIPT">>, rule, <<>> >>

\* what follows the header (lines 984-992): the transcript if it is truthy,
\* else the placeholder block
BodyLines(video_data, transcript) ==
    IF ~transcript.none /\ transcript.lines # <<>>
    THEN transcript.lines
    ELSE << <<"NO", " ", "TRANSCRIPT", " ", "AVAILABLE">>, <<>>,
            <<"This video does not have captions or subtitles available on YouTube.">>,
            <<"To obtain the transcript, you would need to", ":">>,
            <<"1. Use a speech-to-text service">>,
            <<"2. Manually transcribe the content">>,
            <<>>,
            <<"Video", " ", "URL", ":", " ">> \o video_data.url >>

\* the values _generate_master_index_csv starts each file with (line 1336)
ParsedDefault ==
    [rank |-> "Unknown", score |-> <<"0">>, title |-> <<"Unknown">>,
     date |-> <<"Unknown">>, views |-> <<"0">>, url |-> <<>>,
     transcript |-> TranscriptNo, category |-> <<>>, source |-> <<"youtube">>]

\* the body of the loop over the lines (lines 1337-1356)
ParseLine(acc, raw) ==
    LET line == StripTokens(raw)
        StartsWith(p) == Len(line) >= Len(p) /\ SubSeq(line, 1, Len(p)) = p
        Mentions(p) ==
            \E i \in 1..Len(line) :
                i + Len(p) - 1 <= Len(line) /\ SubSeq(line, i, i + Len(p) - 1) = p
        NotSlash100(x) == x # "/100"
        NotComma(x) == x # ","
        Lower(x) == IF x = "Whisper" THEN "whisper" ELSE x
        value == StripTokens(FieldAfterColon(line, TRUE))
        second == StripTokens(FieldAfterColon(line, FALSE))
    IN  IF StartsWith(<<"Rank", ":">>) THEN [acc EXCEPT !.rank = Head(second)]
        ELSE IF StartsWith(<<"Score", ":">>)
        THEN [acc EXCEPT !.score = StripTokens(SelectSeq(second, NotSlash100))]
        ELSE IF StartsWith(<<"Title", ":">>) THEN [acc EXCEPT !.title = value]
        ELSE IF StartsWith(<<"Published", ":">>) THEN [acc EXCEPT !.date = value]
        ELSE IF StartsWith(<<"View", " ", "Count", ":">>)
        THEN [acc EXCEPT !.views = SelectSeq(second, NotComma)]
        ELSE IF StartsWith(<<"URL", ":">>) THEN [acc EXCEPT !.url = value]
        ELSE IF Mentions(<<"Transcript", ":">>)
        THEN [acc EXCEPT !.transcript =
                 IF Mentions(<<"Available">>) THEN TranscriptYes ELSE TranscriptNo]
        ELSE IF StartsWith(<<"Category", ":">>) THEN [acc EXCEPT !.category = value]
        ELSE IF StartsWith(<<"Source", ":">>)
        THEN [acc EXCEPT !.source = [i \in 1..Len(value) |-> Lower(value[i])]]
        ELSE acc

\* the row parsed from the first HeaderWindow lines of a file
RECURSIVE ParseLines(_, _, _)
ParseLines(lines, i, acc) ==
    IF i > Len(lines) \/ i > HeaderWindow THEN acc
    ELSE ParseLines(lines, i + 1, ParseLine(acc, lines[i]))

\* the arguments of save_transcript: titles (plain, with a colon, with a
\* trailing blank), view counts by groups of digits, transcripts by lines
\* (None, one line of speech, a text that names its own transcript)
HeaderTitles == {<<"ta">>, <<"a", ":", " ", "b">>, <<"ta", " ">>}
HeaderTranscripts ==
    {[none |-> TRUE, lines |-> <<>>],
     [none |-> FALSE, lines |-> << <<"t1">> >>],
     [none |-> FALSE, lines |-> << <<"Full", " ", "Transcript", ":", " ", "t1">> >>]}
HeaderInputs ==
    {[applied |-> FALSE,
      video_data |-> [title |-> t, url |-> <<"https", ":", "//www.youtube.com/watch?v=", v>>,
                      date |-> d, view_count |-> n],
      transcript |-> tr, rank |-> r, score |-> sc, category |-> c, source |-> src,
      out |-> ParsedDefault] :
        t \in HeaderTitles, v \in Vids, d \in {<<"2024-01-02">>, <<"Unknown">>},
        n \in {<<"0">>, <<"5", "000">>}, tr \in HeaderTranscripts,
        r \in {"S", "A", "B"}, sc \in {<<"0">>, <<"72.5">>},
        c \in {<<>>, <<CategoryOther>>}, src \in {<<>>, <<"whisper">>}}
NoHeader ==
    [applied |-> FALSE,
     video_data |-> [title |-> <<>>, url |-> <<>>, date |-> <<>>, view_count |-> <<"0">>],
     transcript |-> [none |-> TRUE, lines |-> <<>>], rank |-> "B", score |-> <<"0">>,
     category |-> <<>>, source |-> <<>>, out |-> ParsedDefault]

\* save_transcript(video_data, transcript, rank, score, transcript is not
\* None, category, source) writes the file; _generate_master_index_csv reads
\* it back
WriteThenParse ==
    /\ ~hdr.applied
    /\ hdr # NoHeader
    /\ LET text == MetadataHeader(hdr.video_data, hdr.rank, hdr.score,
                                  ~hdr.transcript.none, hdr.category, hdr.source)
                   \o BodyLines(hdr.video_data, hdr.transcript)
       IN  hdr' = [hdr EXCEPT !.applied = TRUE,
                              !.out = ParseLines(text, 1, ParsedDefault)]
    /\ UNCHANGED headerOthers

HeaderInit == hdr = NoHeader

(***************************************************************************)
(* _batch_summarize_transcripts (src/api.py): one generative call over the *)
(* first videos of the selection, its answer cut into sections by regex.   *)
(* The answer is a sequence of tokens: a marker of number i, a newline, a  *)
(* blank, or a word of the summary of number i.                            *)
(***************************************************************************)
\* videos[:25] (line 1336)
BatchCap == 25
MaxBatch == 26
Marker(i) == [k |-> "marker", i |-> i]
Newline == [k |-> "nl", i |-> 0]
Blank == [k |-> "sp", i |-> 0]
Word(i) == [k |-> "word", i |-> i]
\* the placeholder of line 1373
SummaryFailed == <<[k |-> "failed", i |-> 0]>>
IsSpace(tok) == tok.k \in {"nl", "sp"}

\* the first position from p on that holds a marker, or the end of the answer:
\* the lookahead (?=marker|$) under the lazy (.*?) with re.DOTALL
RECURSIVE SectionEnd(_, _)
SectionEnd(raw, p) ==
    IF p > Len(raw) \/ raw[p].k = "marker" THEN p ELSE SectionEnd(raw, p + 1)

\* \s*\n after the marker at p: the run of white space that follows must hold a
\* newline; the match ends behind the last newline of the run (0: no match)
RECURSIVE AfterNewline(_, _, _)
AfterNewline(raw, p, last) ==
    IF p <= Len(raw) /\ IsSpace(raw[p])
    THEN AfterNewline(raw, p + 1, IF raw[p].k = "nl" THEN p + 1 ELSE last)
    ELSE last

\* str.strip()
RECURSIVE StripSpace(_)
StripSpace(toks) ==
    IF toks = <<>> THEN toks
    ELSE IF IsSpace(toks[1]) THEN StripSpace(Tail(toks))
    ELSE IF IsSpace(toks[Len(toks)]) THEN StripSpace(SubSeq(toks, 1, Len(toks) - 1))
    ELSE toks

\* re.search(pat, raw, re.DOTALL) for the marker of number i, from position p
\* on: the group of the first match, stripped; <<>> when nothing matches
RECURSIVE SearchSummary(_, _, _)
SearchSummary(raw, i, p) ==
    IF p > Len(raw) THEN <<>>
    ELSE IF raw[p] = Marker(i) /\ AfterNewline(raw, p + 1, 0) # 0
    THEN LET from == AfterNewline(raw, p + 1, 0)
         IN StripSpace(SubSeq(raw, from, SectionEnd(raw, from) - 1))
    ELSE SearchSummary(raw, i, p + 1)

\* lines 1335-1344: the positions of videos[:25] whose transcript is not empty
BatchItems(videos, transcripts) ==
    {i \in 1..Len(Take(videos, BatchCap)) : videos[i] \in transcripts}

\* lines 1364-1374: one entry per item, the section or the placeholder
BatchSummarizeTranscripts(videos, transcripts, raw) ==
    LET items == BatchItems(videos, transcripts)
    IN [vid \in {videos[i] : i \in items} |->
           LET i == CHOOSE x \in items : videos[x] = vid /\ \A y \in items : videos[y] = vid => y <= x
               summary == SearchSummary(raw, i, 1)
           IN IF summary # <<>> THEN summary ELSE SummaryFailed]

\* the answers of the generative call to a batch of n videos
RECURSIVE Sections(_, _)
Sections(n, kind) ==
    IF n = 0 THEN <<>>
    ELSE Sections(n - 1, kind) \o
         (CASE kind = "lines" -> <<Marker(n), Newline, Word(n), Newline>>
            [] kind = "inline" -> <<Marker(n), Blank, Word(n), Newline>>
            [] kind = "odd" -> IF n % 2 = 1 THEN <<Marker(n), Blank, Newline, Word(n), Blank>>
                               ELSE <<>>
            [] OTHER -> <<Word(n)>>)
AnswerKinds == {"lines", "inline", "odd", "plain"}

NoBatch == [applied |-> FALSE, videos |-> <<>>, transcripts |-> {}, raw |-> <<>>,
            result |-> <<>>]
\* n videos (the id of a video is its position), all but at most one of the
\* first two with a transcript, and an answer
BatchInputs ==
    {[NoBatch EXCEPT !.videos = [i \in 1..n |-> i], !.transcripts = (1..n) \ skip,
                     !.raw = Sections(n, kind)] :
        n \in 1..MaxBatch, skip \in {{}, {1}, {2}}, kind \in AnswerKinds}

ApplyBatchSummarize ==
    /\ ~bat.applied
    /\ bat.videos # <<>>
    /\ bat' = [bat EXCEPT !.applied = TRUE,
                          !.result = BatchSummarizeTranscripts(bat.videos, bat.transcripts,
                                                               bat.raw)]
    /\ UNCHANGED <<acqVars, storeVars, reportVars, quotaVars, hdr, fin, rcall, nlsel, inflight, status, loop>>

BatInit == bat = NoBatch

(***************************************************************************)
(* The natural-language selection of _do_generate_report (src/api.py lines *)
(* 1402-1421): the corpus is ranked by the query, the first 120 rows are   *)
(* listed in the prompt, and the ids found in the answer are looked up.    *)
(***************************************************************************)
\* ranked[:120] (line 1403)
CandidatesCap == 120
MaxMaster == 121
\* _rank_videos_by_query lines 1304-1313: the score of a row whose title and
\* category hold `hits` of the query's words
RankScore(rank) == CASE rank = "S" -> 3 [] rank = "A" -> 2 [] rank = "B" -> 1 [] OTHER -> 0
QueryScore(v) ==
    v.hits * 100 + RankScore(v.Rank) * 10
        + (IF v.Views \div 10000 < 10 THEN v.Views \div 10000 ELSE 10)

\* lines 1315-1316: scored.sort(key=lambda x: -x[0]): by descending score
\* (Python's sort keeps rows of equal score in the order of the corpus)
ScoredAbove(a, b) == QueryScore(a) > QueryScore(b)
RankVideosByQuery(videos) == SortSeq(videos, ScoredAbove)

\* line 1403
Candidates(m) == Take(RankVideosByQuery(m), CandidatesCap)

\* lines 1419-1421: the ids of the answer are looked up in the whole corpus
NlSelect(m, response) == SelectFromResponse(m, response)

\* a corpus of n rows, the later the row the more words of the query it holds;
\* the id of a row is its number
CorpusOf(n) ==
    [i \in 1..n |-> [_video_id |-> ToString(i), hits |-> i, Rank |-> "B", Views |-> 0]]
\* the answers of the selection call over a corpus of n rows: the best row,
\* the worst row, an id that is not in the corpus, words only
AnswersOver(n) ==
    {<<ToString(n)>>, <<"w", ToString(1)>>, <<ToString(n), "w", ToString(1)>>,
     <<ToString(0), ToString(n)>>, <<"w">>}

NoSelection == [applied |-> FALSE, master |-> <<>>, response |-> <<>>,
                candidates |-> <<>>, selected |-> <<>>]
SelectionInputs ==
    {[NoSelection EXCEPT !.master = CorpusOf(n), !.response = r] :
        n \in 1..MaxMaster, r \in UNION {AnswersOver(k) : k \in 1..MaxMaster}}

ApplyNlSelect ==
    /\ ~nlsel.applied
    /\ nlsel.master # <<>>
    /\ nlsel' = [nlsel EXCEPT !.applied = TRUE,
                              !.candidates = Candidates(nlsel.master),
                              !.selected = NlSelect(nlsel.master, nlsel.response)]
    /\ UNCHANGED <<acqVars, storeVars, reportVars, quotaVars, hdr, fin, rcall, bat, inflight, status, loop>>

SelInit == nlsel = NoSelection

(***************************************************************************)
(* Specifications.                                                         *)
(***************************************************************************)
Init == AcqInit /\ StoreInit /\ ReportInit /\ QuotaInit /\ HeaderInit /\ FinInit /\ RecInit /\ BatInit /\ SelInit /\ ThreadsInit /\ StatusInit /\ LoopInit
\* the state of a process that runs no get_transcript (the tokens are not
\* read) and whose report files read and write without error
InitNoEnv == Init /\ env = [bibigpt |-> FALSE, openai |-> FALSE]
             /\ storeFaults = FALSE
\* the server over a data directory that holds the corpus
InitCorpus ==
    /\ AcqInit /\ env = [bibigpt |-> FALSE, openai |-> FALSE]
    /\ files = CorpusFiles
    /\ tindex = GenerateTranscriptIndex(CorpusFiles)
    /\ master = GenerateMasterIndexCsv(CorpusFiles)
    /\ op = [kind |-> "none", vid |-> "-", has |-> FALSE, readOk |-> TRUE]
    /\ runs = [r \in Runs |-> RunIdle]
    /\ written = <<FileName("A", "ta"), FileName("B", "ta")>>
    /\ ReportInit
    /\ QuotaInit
    /\ HeaderInit
    /\ FinInit
    /\ RecInit /\ BatInit /\ SelInit /\ ThreadsInit /\ StatusInit /\ LoopInit
\* report files read and write without error
InitReliable == InitCorpus /\ storeFaults = FALSE
\* reads and writes of report files may raise
InitFaulty == InitCorpus /\ storeFaults = TRUE

\* the server that has applied no quota test yet, with counters to test
InitQuotaFn ==
    /\ AcqInit /\ env = [bibigpt |-> FALSE, openai |-> FALSE]
    /\ StoreInit
    /\ ReportInit /\ storeFaults = FALSE
    /\ usage = [x \in {} |-> [count |-> 0, minutes |-> 0]]
    /\ today = Days[1]
    /\ conv = ConvIdle
    /\ tasks = {}
    /\ qfn \in QuotaInputs
    /\ hdr = NoHeader
    /\ fin = NoFinal
    /\ RecInit /\ BatInit /\ SelInit /\ ThreadsInit /\ StatusInit /\ LoopInit

\* a process about to write a transcript file and regenerate master_index.csv
InitHeader ==
    /\ AcqInit /\ env = [bibigpt |-> FALSE, openai |-> FALSE]
    /\ StoreInit
    /\ ReportInit /\ storeFaults = FALSE
    /\ usage = [x \in {} |-> [count |-> 0, minutes |-> 0]]
    /\ today = Days[1]
    /\ conv = ConvIdle
    /\ tasks = {}
    /\ qfn = NoCheck
    /\ hdr \in HeaderInputs
    /\ fin = NoFinal
    /\ RecInit /\ BatInit /\ SelInit /\ ThreadsInit /\ StatusInit /\ LoopInit

\* a report job about to build its prompt over a selection
InitFinal ==
    /\ AcqInit /\ env = [bibigpt |-> FALSE, openai |-> FALSE]
    /\ StoreInit
    /\ ReportInit /\ storeFaults = FALSE
    /\ QuotaInit
    /\ HeaderInit
    /\ fin \in {f \in FinalInputs : f.transcripts \subseteq 1..Len(f.selected)}
    /\ RecInit /\ BatInit /\ SelInit /\ ThreadsInit /\ StatusInit /\ LoopInit

Next ==
    \/ NextAcq \/ NextStore \/ NextRace \/ NextReport
    \/ NextQuota \/ NextGate \/ NextQuotaFn
    \/ WriteThenParse
    \/ ApplyCompleted
    \/ RecordCall
    \/ NextItems
    \/ ApplyBatchSummarize
    \/ ApplyNlSelect
    \/ NextThreads
    \/ NextLoops

\* the whole program
Spec == Init /\ [][Next]_vars
\* the acquisition engine alone
SpecAcq == Init /\ [][NextAcq]_vars
\* the counters under get_transcript calls and direct record() calls
SpecStats == Init /\ [][NextStats]_vars
\* the statements of one get_transcript call: the calling thread runs them
\* one after the other, so a call that can take a step eventually takes one
GtRun ==
    \/ GtProbe \/ GtYoutubeApi \/ GtYtDlp \/ GtWhisperMethod3 \/ GtBibigpt
    \/ GtWhisperLast \/ GtWhisperHangs
\* get_transcript calls that are run as far as they go
SpecAcqLive == Init /\ [][NextAcq]_vars /\ WF_vars(GtRun)
\* the persistence layer, handlers run one after another
SpecStore == InitNoEnv /\ [][NextStore]_vars
\* the handlers that acquire one item and commit it, run one after another
SpecItems == InitNoEnv /\ [][NextItems]_vars
\* the persistence layer under concurrent acquisition runs
SpecRace == InitNoEnv /\ [][NextRace]_vars
\* report jobs over a corpus, report files reliable
SpecReport == InitReliable /\ [][NextReport]_vars
\* report jobs over a corpus, report files may fail to read or write
SpecReportIO == InitFaulty /\ [][NextReport]_vars
\* the endpoints that create and remove records, before any task has run;
\* report files may fail to write
NextSubmit ==
    \/ GenerateReport
    \/ \E id \in ReportIds : DeleteReport(id)
    \/ \E vid \in Vids : TempDeleteVideo(vid)
SpecSubmit == InitFaulty /\ [][NextSubmit]_vars
\* the statements of one background task: FastAPI runs a scheduled task to its
\* end, so a task that can take a step eventually takes one
JobRun(id) ==
    \/ JobBegin(id) \/ UpdateCheck(id) \/ UpdateRead(id) \/ UpdateWrite(id)
    \/ JobLoadMaster(id) \/ JobSelect(id) \/ JobLoadTranscripts(id)
    \/ JobSummarize(id) \/ JobSynthesize(id)
\* report jobs that are run to their end, report files may fail to read or
\* write
SpecReportLive ==
    InitFaulty /\ [][NextReport]_vars /\ \A id \in ReportIds : WF_vars(JobRun(id))
\* the convert endpoint and its quota, over the days
SpecQuota == InitNoEnv /\ [][NextQuota]_vars
\* every endpoint that starts acquisition work
SpecGate == InitNoEnv /\ [][NextGate]_vars
\* _check_quota_limit over given counters
SpecQuotaFn == InitQuotaFn /\ [][NextQuotaFn]_vars
\* the metadata block written and parsed back
SpecHeader == InitHeader /\ [][WriteThenParse]_vars
\* the final update of a report over a selection
SpecFinal == InitFinal /\ [][ApplyCompleted]_vars
\* a report job about to summarize a batch
InitBatch ==
    /\ AcqInit /\ env = [bibigpt |-> FALSE, openai |-> FALSE]
    /\ StoreInit
    /\ ReportInit /\ storeFaults = FALSE
    /\ QuotaInit
    /\ HeaderInit
    /\ FinInit
    /\ RecInit
    /\ bat \in BatchInputs
    /\ SelInit /\ ThreadsInit /\ StatusInit /\ LoopInit
\* a report job in natural-language mode about to select
InitSelect ==
    /\ AcqInit /\ env = [bibigpt |-> FALSE, openai |-> FALSE]
    /\ StoreInit
    /\ ReportInit /\ storeFaults = FALSE
    /\ QuotaInit
    /\ HeaderInit
    /\ FinInit
    /\ RecInit
    /\ BatInit
    /\ ThreadsInit /\ StatusInit /\ LoopInit
    /\ nlsel \in {x \in SelectionInputs :
                     x.response \in AnswersOver(Len(x.master))}
\* the batch loops and the progress record
SpecLoops == InitNoEnv /\ [][NextLoops]_vars
\* convert_temp_videos served by the threads of the pool, within one day
SpecThreads == InitNoEnv /\ [][NextThreads]_vars
\* the natural-language selection over given corpora and answers
SpecSelect == InitSelect /\ [][ApplyNlSelect]_vars
\* _batch_summarize_transcripts over given batches and answers
SpecBatch == InitBatch /\ [][ApplyBatchSummarize]_vars

(***************************************************************************)
(*                              CLAIMS                                     *)
(***************************************************************************)
IsPrefix(s, t) == Len(s) <= Len(t) /\ \A i \in 1..Len(s) : s[i] = t[i]
SomeSucceeded == \E i \in 1..Len(gt.results) : Succeeded(gt.results[i])

\* the strategy order the specification states for each reading of the probe
StatedOrder(reach) ==
    IF reach = "yes" THEN <<"youtube_api", "yt_dlp", "whisper">>
                     ELSE <<"bibigpt_api", "whisper">>

\* the persisted artifact of video v carries transcript_present = true: the
\* index entry of v names a file of v whose header says Transcript: Available
TruePersisted(v) ==
    /\ tindex[v] # NoName
    /\ files[tindex[v]].exists
    /\ files[tindex[v]].vid = v
    /\ files[tindex[v]].avail

\* C1 (as stated): once a commit with has_transcript = true is persisted for a
\* video, a later commit with has_transcript = false for that video (whose read
\* of the existing file succeeds) leaves the persisted artifact's content and
\* the video's index entry unchanged.
C1_NoRegression ==
    [][\A v \in Vids :
          (/\ TruePersisted(v)
           /\ op'.kind \in {"convert", "retry"}
           /\ op'.vid = v
           /\ ~op'.has
           /\ op'.readOk)
          => /\ tindex'[v] = tindex[v]
             /\ files'[tindex[v]] = files[tindex[v]]]_vars

\* C2 (as stated): when two runs for the same video (same file name) have both
\* ended, one with a transcript text and one with None, and every read of the
\* existing file succeeded, the file holds the transcript.
C2_RaceKeepsSuccess ==
    \A r, q \in Runs :
        (/\ runs[r].pc = "done" /\ runs[q].pc = "done"
         /\ runs[r].vid = runs[q].vid
         /\ runs[r].rank = runs[q].rank /\ runs[r].title = runs[q].title
         /\ runs[r].tr = "t1" /\ runs[q].tr = None
         /\ runs[r].readOk /\ runs[q].readOk)
        => files[FileName(runs[r].rank, runs[r].title)]
              = FileText(runs[r].vid, "t1", TRUE, CategoryOther)

\* C3 (as stated): in every get_transcript call the strategies invoked are, in
\* order and without repetition, the stated order of the probe's branch cut at
\* the first success: [Caption API, Sidecar, Speech-to-Text] when reachable,
\* [Summarization API, Speech-to-Text] when not; a call that returns None has
\* invoked exactly that list.
C3_StatedOrder ==
    gt.reach # "unset" =>
        /\ IsPrefix(gt.invoked, StatedOrder(gt.reach))
        /\ (gt.pc = "returned" /\ gt.ret = None => gt.invoked = StatedOrder(gt.reach))

\* C4: as soon as a strategy returns a successful result, get_transcript
\* returns that result's text, invokes no further strategy, and exactly one
\* success counter, the one of the result's source, has grown, by one.
C4_FirstSuccessReturns ==
    SomeSucceeded =>
        LET n == Len(gt.results) IN
        /\ gt.pc = "returned"
        /\ Succeeded(gt.results[n])
        /\ \A i \in 1..(n - 1) : ~Succeeded(gt.results[i])
        /\ gt.ret = gt.results[n].text
        /\ gt.winner = gt.results[n].source
        /\ \A s \in Sources :
              stats[s].success =
                  gt.stats0[s].success + (IF s = gt.results[n].source THEN 1 ELSE 0)

\* C4 witness: a call returned a text from its second strategy, after the
\* first one failed.
C4_Witness ==
    /\ gt.pc = "returned"
    /\ gt.ret = "t1"
    /\ gt.invoked = <<"youtube_api", "yt_dlp">>
    /\ stats["yt_dlp"].success = gt.stats0["yt_dlp"].success + 1

\* C5 (as stated): get_transcript never raises, whatever each strategy does; it
\* returns a text or None, and None exactly when no invoked strategy succeeded.
C5_NeverRaises ==
    /\ gt.pc # "raised"
    /\ (gt.pc = "returned" => (gt.ret = None <=> ~SomeSucceeded))

\* the status changes the lifecycle allows
StatusOrder ==
    {<<"pending", "processing">>, <<"processing", "completed">>, <<"processing", "failed">>}

C7_ExceptionsEndFailed ==
    \A id \in ReportIds :
        /\ jobs[id].pc # "escaped"
        /\ (jobs[id].pc = "done" /\ ~jobs[id].inTry /\ reports[id].exists)
              => /\ Valid(reports[id])
                 /\ reports[id].status = "failed"
                 /\ reports[id].error.len <= ErrCap

\* C8: a generate_report call in filter mode whose filters match no row of the
\* corpus is answered with a 400, creates no report record and schedules no
\* background task.
C8_EmptyFilterRejected ==
    [][(/\ nextId' # nextId
        /\ resp'.req.mode = "filter"
        /\ ApplyFilters(master, resp'.req.filters) = <<>>)
       => (reports' = reports /\ jobs' = jobs /\ resp'.code = 400)]_vars

\* a filter-mode submission over a non-empty corpus was rejected because its
\* filters match nothing
C8_Witness ==
    /\ resp.req.mode = "filter"
    /\ master # <<>>
    /\ ApplyFilters(master, resp.req.filters) = <<>>
    /\ resp.code = 400
    /\ resp.detail = DetailNoMatch

\* a filter-mode job whose record says it failed because nothing was selected
FailedEmptyFilter(id) ==
    /\ jobs[id].pc # "none"
    /\ jobs[id].req.mode = "filter"
    /\ Valid(reports[id])
    /\ reports[id].status = "failed"
    /\ reports[id].error = ErrNoMatchFilter

AnsweredWithoutCorpusId(j) ==
    /\ j.pc # "none"
    /\ j.req.mode = "nl"
    /\ j.response # NoResponse
    /\ \A i \in 1..Len(j.response) : j.response[i] \notin IdsOf(j.master)

\* C10: an nl-mode job whose selection response holds no id of the corpus goes
\* straight to the failure update with the fixed non-empty message; its record
\* is never completed, and when the job has ended the record (if it still
\* exists) is failed with a non-empty error.
C10_NoIdsFails ==
    \A id \in ReportIds :
        AnsweredWithoutCorpusId(jobs[id])
        => /\ jobs[id].pc \in {"update_check", "update_read", "update_write", "done"}
           /\ jobs[id].pc # "done"
                 => jobs[id].upd = [status |-> "failed", error |-> ErrNoMatchNl]
           /\ Valid(reports[id]) => reports[id].status # "completed"
           /\ (jobs[id].pc = "done" /\ Valid(reports[id]))
                 => /\ reports[id].status = "failed"
                    /\ reports[id].error.len > 0

\* an nl-mode job whose response named only an unknown id has ended failed
C10_Witness ==
    \E id \in ReportIds :
        /\ AnsweredWithoutCorpusId(jobs[id])
        /\ jobs[id].response = <<"w", "zz">>
        /\ jobs[id].pc = "done"
        /\ Valid(reports[id])
        /\ reports[id].status = "failed"
        /\ reports[id].error = ErrNoMatchNl

\* every artifact of the video is a failure placeholder, and it has one
PlaceholderOnly(vid) ==
    /\ \E fn \in DOMAIN files : files[fn].exists /\ files[fn].vid = vid
    /\ \A fn \in DOMAIN files :
          (files[fn].exists /\ files[fn].vid = vid)
          => (~files[fn].avail /\ files[fn].body = Placeholder)

\* C11 (as stated): a report job whose selected items all have only a
\* failure-placeholder artifact makes no summarization or synthesis call and
\* its record is never completed.
C11_PlaceholderOnlyFails ==
    \A id \in ReportIds :
        (/\ jobs[id].pc # "none"
         /\ jobs[id].selected # <<>>
         /\ \A vid \in IdsOf(jobs[id].selected) : PlaceholderOnly(vid))
        => /\ jobs[id].pc \notin {"summarize", "synthesize"}
           /\ Valid(reports[id]) => reports[id].status # "completed"

\* C12: _check_quota_limit admits a key exactly when its used count is below
\* the count limit and its used minutes are below the minutes limit of its
\* class (anonymous 5 and 80, authenticated 20 and 300); a counter at its
\* limit denies whatever the other one is.
C12_AdmissionBoth ==
    qfn.applied =>
        (qfn.first <=>
            IF qfn.request.auth
            THEN qfn.count < 20 /\ qfn.minutes < 300
            ELSE qfn.count < 5 /\ qfn.minutes < 80)
\* an anonymous key whose count alone has reached its limit is denied, as is
\* one whose minutes alone have
C12_Witness ==
    /\ qfn.applied /\ ~qfn.request.auth /\ ~qfn.first
    /\ \/ qfn.count = 5 /\ qfn.minutes = 0
       \/ qfn.count = 0 /\ qfn.minutes = 80

\* C13: a key denied at (count, minutes) is denied at (count + k, minutes + m)
\* for k, m >= 0, the counters _inc_usage leaves after further charges of the
\* same day.
C13_DenialMonotone ==
    qfn.applied => (~qfn.first => ~qfn.second)
\* a denied key is tested again after its counters have grown
C13_Witness ==
    qfn.applied /\ ~qfn.first /\ ~qfn.second /\ qfn.k > 0 /\ qfn.m > 0

\* the key a request is counted under on a day, and the counters recorded
\* under a key (0 and 0 when nothing was charged under it)
KeyOf(request, day) == <<IF request.auth THEN "user" ELSE request.ip, day>>
Used(key) ==
    IF key \in DOMAIN usage THEN usage[key] ELSE [count |-> 0, minutes |-> 0]
CountLimit(request) == IF request.auth THEN 20 ELSE 5
MinutesLimit(request) == IF request.auth THEN 300 ELSE 80

\* C14: a convert request of N items with used count + N above the count
\* limit, or used minutes + 15 N above the minutes limit, is rejected, and a
\* rejected request changes no counter and starts no conversion.
C14_BulkRejectedInFull ==
    [][/\ (/\ conv.pc = "idle" /\ conv'.pc # "idle"
           /\ LET used == Used(KeyOf(conv'.request, today))
              IN  \/ used.count + conv'.n > CountLimit(conv'.request)
                  \/ used.minutes + 15 * conv'.n > MinutesLimit(conv'.request))
          => (conv'.pc = "rejected" /\ usage' = usage /\ tasks' = tasks)
       /\ conv.pc = "rejected" => (usage' = usage /\ tasks' = tasks)]_vars
\* an anonymous key at count 3, below both limits, asks for 3 items and is
\* answered 429 with its counters as they were
C14_Witness ==
    /\ conv.pc = "rejected" /\ conv.code = 429 /\ conv.n = 3
    /\ ~conv.request.auth
    /\ Used(KeyOf(conv.request, today)) = [count |-> 3, minutes |-> 45]

\* C15: the counters change only in the charge of an admitted request, by
\* exactly N and 15 N under the caller's key; a task is scheduled only after
\* that charge, and a charged request does nothing but schedule its task; a
\* rejected request (400, 429, 500) changes no counter and schedules nothing.
C15_ChargeIffSchedule ==
    [][/\ usage' # usage =>
            /\ conv.pc = "admitted" /\ conv'.pc = "charged"
            /\ LET key == KeyOf(conv.request, today)
               IN  /\ DOMAIN usage' = DOMAIN usage \cup {key}
                   /\ usage'[key] = [count |-> Used(key).count + conv.n,
                                     minutes |-> Used(key).minutes + 15 * conv.n]
                   /\ \A k \in DOMAIN usage \ {key} : usage'[k] = usage[k]
       /\ tasks' # tasks => (conv.pc = "charged" /\ conv'.pc = "scheduled")
       /\ (conv.pc = "charged" /\ conv' # conv) =>
            /\ conv'.pc = "scheduled"
            /\ [kind |-> "convert-urls", request |-> conv.request] \in tasks'
       /\ (conv.pc = "idle" /\ conv'.pc = "rejected") =>
            (usage' = usage /\ tasks' = tasks)
       /\ conv.pc = "rejected" => (usage' = usage /\ tasks' = tasks)
       /\ (conv.pc = "idle" /\ conv'.pc # "idle") =>
            (conv'.pc = "admitted" <=> conv'.code = 200)]_vars
\* a first request of 3 items was charged 3 and 45 and its task scheduled
C15_Witness ==
    /\ conv.pc = "scheduled" /\ conv.n = 3
    /\ Used(KeyOf(conv.request, today)) = [count |-> 3, minutes |-> 45]
    /\ [kind |-> "convert-urls", request |-> conv.request] \in tasks

C17_NewDayAdmitted ==
    [][/\ \A r \in Callers :
            KeyOf(r, today) \notin DOMAIN usage =>
                CheckQuotaLimit(usage, r, today) =
                    [can_continue |-> TRUE, count |-> 0, minutes |-> 0]
       /\ (/\ conv.pc = "idle" /\ conv'.pc # "idle"
           /\ KeyOf(conv'.request, today) \notin DOMAIN usage)
          => conv'.code # 429]_vars
\* the anonymous caller used up the first day, and its first request of the
\* second day is admitted
C17_Witness ==
    /\ today = Days[2] /\ conv.pc = "admitted" /\ ~conv.request.auth
    /\ Used(KeyOf(conv.request, Days[1])).count = 5
    /\ KeyOf(conv.request, today) \notin DOMAIN usage

\* the artifacts of an identifier, those that hold a transcript, and whether
\* the transcript index was regenerated from the present files
ArtifactsOf(vid) == {fn \in DOMAIN files : files[fn].exists /\ files[fn].vid = vid}
HoldsTranscript(fn) ==
    files[fn].exists /\ files[fn].avail /\ files[fn].body # Placeholder
IndexRegenerated == op.kind \in {"convert", "regen"}
\* the artifact of the identifier that was written last
MostRecent(vid) ==
    LET pos == {i \in 1..Len(written) : written[i] \in ArtifactsOf(vid)}
    IN  written[CHOOSE i \in pos : \A j \in pos : j <= i]

\* C18 (as stated): after a regeneration, the index entry of every identifier
\* that has an artifact with a transcript is an artifact with a transcript,
\* whatever placeholder artifacts the identifier also has.
C18_IndexPrefersTranscript ==
    IndexRegenerated =>
        \A vid \in Vids :
            (\E fn \in ArtifactsOf(vid) : HoldsTranscript(fn))
            => (tindex[vid] # NoName /\ HoldsTranscript(tindex[vid]))

\* C19 (as stated): after a regeneration, the index entry of every identifier
\* whose artifacts are all placeholders is the one of them written last.
C19_IndexMostRecentPlaceholder ==
    IndexRegenerated =>
        \A vid \in Vids :
            PlaceholderOnly(vid) => tindex[vid] = MostRecent(vid)

\* C20 (as stated): the row parsed from a file written by save_transcript
\* holds the rank, score, title, date, view count, URL, transcript flag,
\* category and source that were written.
C20_MetadataRoundTrip ==
    hdr.applied =>
        hdr.out = [rank |-> hdr.rank, score |-> hdr.score,
                   title |-> hdr.video_data.title, date |-> hdr.video_data.date,
                   views |-> hdr.video_data.view_count, url |-> hdr.video_data.url,
                   transcript |-> IF hdr.transcript.none THEN TranscriptNo
                                  ELSE TranscriptYes,
                   category |-> hdr.category,
                   source |-> IF hdr.source = <<>> THEN <<"youtube">> ELSE hdr.source]

\* C21: once the class attribute holds a result it never changes, and a later
\* _can_access_youtube returns it without probing, whatever the network would
\* answer then; the branch of get_transcript follows that result.
C21_ProbeMemoized ==
    [][/\ canAccessCache # "unset" => canAccessCache' = canAccessCache
       /\ (gt.pc = "probe" /\ gt'.pc # "probe") =>
            /\ canAccessCache' # "unset"
            /\ gt'.reach = canAccessCache'
            /\ canAccessCache # "unset" => (gt'.reach = canAccessCache /\ ~gt'.probed)
            /\ gt'.pc = IF gt'.reach = "yes" THEN "youtube_api" ELSE "bibigpt_api"]_vars
\* the second acquisition of a process takes the unreachable branch from the
\* cache although the network would now answer
C21_Witness ==
    /\ calls = 2 /\ gt.pc = "bibigpt_api"
    /\ ~gt.probed /\ gt.reach = "no" /\ gt.net = "yes"

\* C22 (as stated): the completed update holds the report text, a count equal
\* to the number of videos put in the prompt, and the titles of exactly those
\* videos.
C22_CompletedStoresUsed ==
    fin.applied =>
        /\ fin.upd.status = "completed" /\ fin.upd.report \in ReportTexts
        /\ fin.upd.with_transcript_count = Len(fin.materials)
        /\ fin.upd.video_titles =
              [i \in 1..Len(fin.materials) |-> fin.materials[i].Title]

\* C23 (as stated): every report job whose background task was scheduled ends
\* with its record in status completed or failed (a record that delete_report
\* removed in the meantime is not counted against the job).
C23_JobsReachTerminal ==
    \A id \in ReportIds :
        (jobs[id].pc = "scheduled")
            ~> (\/ ~reports[id].exists
                \/ /\ Valid(reports[id])
                   /\ reports[id].status \in {"completed", "failed"})

\* C24: a generate_report call that is answered with a job id has, by the time
\* it answers, saved a record under that id whose status is pending and
\* scheduled the background task of that id; the answer says pending; a
\* background task is never scheduled for an id that has no saved record, and
\* a call that is not answered with an id schedules nothing.
C24_AckAfterPendingRecord ==
    [][nextId' # nextId =>
         /\ resp'.code = 200 =>
               /\ resp'.id = nextId
               /\ resp'.detail = "pending"
               /\ ~Valid(reports[nextId]) /\ Valid(reports'[nextId])
               /\ reports'[nextId].id = nextId
               /\ reports'[nextId].status = "pending"
               /\ jobs[nextId].pc = "none" /\ jobs'[nextId].pc = "scheduled"
         /\ resp'.code # 200 => resp'.id = 0 /\ jobs' = jobs
         /\ \A id \in ReportIds :
               jobs'[id] # jobs[id] => Valid(reports'[id])]_vars

\* a submission was accepted: its record is pending and its task is scheduled
C24_Witness ==
    /\ resp.code = 200 /\ resp.id = 1
    /\ Valid(reports[1]) /\ reports[1].status = "pending"
    /\ jobs[1].pc = "scheduled"

\* C25 (as stated): every get_transcript call comes to an end (it returns, or
\* an exception leaves it): no strategy invocation keeps the call forever.
C25_GetTranscriptTerminates ==
    (gt.pc = "probe") ~> (gt.pc \in {"returned", "raised"})

\* the strategy that runs when get_transcript invokes `name`:
\* _transcribe_with_whisper runs the OpenAI API when OPENAI_API_KEY is set, the
\* local model otherwise
StrategyRun(name) ==
    IF name = "whisper"
    THEN (IF env.openai THEN "whisper_api" ELSE "whisper_local")
    ELSE name

\* C26 (as stated): a strategy invocation that ran and failed (it returned no
\* result; an invocation skipped for want of a credential, one that raised and
\* one that does not come back are left aside) adds one to the failure counter
\* of the strategy that ran and changes no other counter, except that the
\* invocation that exhausts the order also adds the one exhaustion failure,
\* which the code keeps in the whisper_local failure counter.
C26_FailureCountedOnce ==
    [][(/\ Len(gt'.invoked) = Len(gt.invoked) + 1
        /\ gt'.pc \notin {"raised", "in_whisper"}
        /\ ~Succeeded(gt'.results[Len(gt'.results)])
        /\ ~(gt'.invoked[Len(gt'.invoked)] = "bibigpt_api" /\ ~env.bibigpt))
       => LET ran == StrategyRun(gt'.invoked[Len(gt'.invoked)])
              exhausted == gt'.pc = "returned"
          IN \A s \in Sources :
                /\ stats'[s].success = stats[s].success
                /\ stats'[s].failure =
                      stats[s].failure + (IF s = ran THEN 1 ELSE 0)
                          + (IF exhausted /\ s = "whisper_local" THEN 1 ELSE 0)]_vars

\* C27: no step of the process lowers a counter of extraction_stats, and a
\* record() call whose name is not one of the five known ones leaves every
\* counter as it was (a call with a known name adds one to the one counter it
\* names).
C27_CountersMonotone ==
    [][/\ \A s \in Sources :
             /\ stats'[s].success >= stats[s].success
             /\ stats'[s].failure >= stats[s].failure
       /\ DOMAIN stats' = Sources
       /\ rcall' # rcall =>
             /\ rcall'.source \notin Sources => stats' = stats
             /\ rcall'.source \in Sources =>
                   \A s \in Sources :
                      /\ stats'[s].success = stats[s].success
                            + (IF s = rcall'.source /\ rcall'.success THEN 1 ELSE 0)
                      /\ stats'[s].failure = stats[s].failure
                            + (IF s = rcall'.source /\ ~rcall'.success THEN 1 ELSE 0)]_vars

\* record() was called with an unknown name on counters that an exhausted
\* acquisition had raised
C27_Witness ==
    /\ rcall.n = 1 /\ rcall.source = UnknownSource
    /\ gt.pc = "returned" /\ gt.ret = None
    /\ stats = [gt.stats0 EXCEPT !["whisper_local"].failure = @ + 2]

\* C28: without BIBIGPT_API_TOKEN the BibiGPT strategy returns None before any
\* request and leaves every counter as it was, and get_transcript, which
\* invokes it only on the unreachable branch and first, goes on to the
\* Whisper transcription as the next and only other strategy.
C28_NoTokenSkipsBibigpt ==
    [][(gt.pc = "bibigpt_api" /\ gt'.pc # "bibigpt_api" /\ ~env.bibigpt) =>
          /\ gt.reach = "no" /\ gt.invoked = <<>>
          /\ gt'.invoked = <<"bibigpt_api">>
          /\ gt'.called = <<FALSE>>
          /\ gt'.results = <<NoResult>>
          /\ stats' = stats
          /\ gt'.pc = "whisper_last"]_vars

\* an acquisition without the token, on the unreachable branch, that went on
\* to Whisper after the skipped strategy and got a text there
C28_Witness ==
    /\ ~env.bibigpt /\ gt.reach = "no"
    /\ gt.invoked = <<"bibigpt_api", "whisper">>
    /\ gt.called = <<FALSE, TRUE>>
    /\ gt.pc = "returned" /\ gt.ret = "t1"

\* C29 (as stated): after process_filtered_candidates has handled a candidate
\* whose get_transcript returned (a text or None), a transcript file of that
\* video exists.
C29_AttemptLeavesArtifact ==
    op.kind = "process" =>
        \E fn \in DOMAIN files : files[fn].exists /\ files[fn].vid = op.vid

\* the files of fs that hold a transcript of the video
TranscriptsOf(fs, vid) ==
    {fn \in DOMAIN fs : /\ fs[fn].exists /\ fs[fn].vid = vid
                        /\ fs[fn].avail /\ fs[fn].body # Placeholder}

\* C30 (as stated): a --whisper-one run, on any dashboard, whose transcription
\* gives no text leaves a video that had a file with its transcript with such
\* a file.
C30_FailedRetranscriptionKeeps ==
    [][(/\ op'.kind \in {"whisper_one", "whisper_one_temp"}
        /\ ~op'.has
        /\ TranscriptsOf(files, op'.vid) # {})
       => TranscriptsOf(files', op'.vid) # {}]_vars

\* C31 (as stated): a handler step that wrote a transcript file leaves
\* transcript_index.json with an entry for the handler's video, and the entry
\* names an existing file of that video.
C31_IndexRecomputed ==
    [][files' # files =>
          /\ tindex'[op'.vid] # NoName
          /\ files'[tindex'[op'.vid]].exists
          /\ files'[tindex'[op'.vid]].vid = op'.vid]_vars

\* the summary the answer holds for number i: the words that follow the first
\* marker of that number, up to the next marker
RECURSIVE MarkerAt(_, _, _)
MarkerAt(raw, i, p) ==
    IF p > Len(raw) THEN 0
    ELSE IF raw[p] = Marker(i) THEN p
    ELSE MarkerAt(raw, i, p + 1)
SectionOf(raw, i) ==
    LET p == MarkerAt(raw, i, 1) IN
    IF p = 0 THEN <<>> ELSE StripSpace(SubSeq(raw, p + 1, SectionEnd(raw, p + 1) - 1))

\* C32 (as stated): the batch holds at most 25 items, every item of the batch
\* has a summary entry and nothing else has, and the entry is the answer's
\* section of that item when the answer holds the item's marker (with a text
\* behind it), the placeholder otherwise.
C32_EveryItemSummarized ==
    bat.applied =>
        LET items == {i \in 1..Len(bat.videos) : i <= BatchCap /\ bat.videos[i] \in bat.transcripts}
        IN /\ Cardinality(items) <= BatchCap
           /\ DOMAIN bat.result = {bat.videos[i] : i \in items}
           /\ \A i \in items :
                 bat.result[bat.videos[i]] =
                     IF SectionOf(bat.raw, i) # <<>> THEN SectionOf(bat.raw, i)
                     ELSE SummaryFailed

\* C33 (as stated): at most 120 candidates are presented, every selected row
\* is one of the presented candidates, and an id of the answer that no row of
\* the corpus has selects nothing.
C33_SelectedWithinCandidates ==
    nlsel.applied =>
        /\ Len(nlsel.candidates) <= CandidatesCap
        /\ \A i \in 1..Len(nlsel.selected) :
              \E c \in 1..Len(nlsel.candidates) : nlsel.candidates[c] = nlsel.selected[i]
        /\ \A i \in 1..Len(nlsel.selected) :
              \E r \in 1..Len(nlsel.master) : nlsel.master[r] = nlsel.selected[i]

\* C34 (as stated): of two save_transcript calls made by
\* process_filtered_candidates, one whose write was suppressed by the guard and
\* one whose write was made, the caller gets different results.
C34_SuppressionReported ==
    [][(/\ op.kind = "process" /\ op'.kind = "process"
        /\ op.kept # op'.kept)
       => op.ret # op'.ret]_vars

C37_MinutesFollowCount ==
    /\ \A k \in DOMAIN usage : usage[k].minutes = 15 * usage[k].count
    /\ \A r \in Callers :
          LET used == Used(KeyOf(r, today))
          IN  /\ used.count < CountLimit(r) => used.minutes < MinutesLimit(r)
              /\ CheckQuotaLimit(usage, r, today).can_continue
                    <=> used.count < CountLimit(r)
              /\ \A n \in 1..MaxUrls :
                    WouldExceed(usage, r, today, n)
                        <=> used.count + n > CountLimit(r)
\* the authenticated key stands at 20 and 300, the anonymous one at 5 and 75
C37_Witness ==
    /\ \E r \in Callers : r.auth /\ Used(KeyOf(r, today)) = [count |-> 20, minutes |-> 300]
    /\ \E r \in Callers : ~r.auth /\ Used(KeyOf(r, today)) = [count |-> 5, minutes |-> 75]

\* C36 (as stated): whatever the interleaving of the tests and charges of
\* the requests in flight, no key's used count exceeds its count limit and
\* no key's used minutes exceed its minutes limit.
C36_NeverOverLimit ==
    \A r \in Callers :
        LET used == Used(KeyOf(r, today))
        IN  used.count <= CountLimit(r) /\ used.minutes <= MinutesLimit(r)

\* C38 (as stated): the record of a submitted report that has been deleted
\* does not come back: while the report's task exists and no record with its
\* id does, no step creates a record with that id.
C38_DeletedStaysDeleted ==
    [][\A id \in ReportIds :
          (jobs[id] # NoJob /\ ~reports[id].exists) => ~reports'[id].exists]_vars

\* C39 (as stated): in every batch run the progress record has
\* 0 <= current <= total and its current never goes down while the run
\* lasts, and a run that has left its method, by its end or by an item that
\* raised, has written status idle with current = total.
C39_StatusEndsIdle ==
    [][/\ 0 <= status'.current /\ status'.current <= status'.total
       /\ (loop.pc = "running" /\ loop'.kind = loop.kind /\ loop'.pc # "idle")
            => status'.current >= status.current
       /\ (loop.pc = "running" /\ loop'.pc \in {"done", "raised"})
            => (status'.status = "idle" /\ status'.current = status'.total)]_vars

\* C40 (as stated): a submission in natural-language mode whose query is
\* missing, empty or blank is answered with a client error (400) and
\* creates no record.
C40_BlankQueryRejected ==
    [][(/\ nextId' # nextId
        /\ resp'.req.mode = "nl"
        /\ Strip(resp'.req.nl_query) = EmptyText)
       => (resp'.code = 400 /\ reports' = reports)]_vars

====
